---- MODULE Spec2Model ----
(***************************************************************************)
(* GzipFileBuffer: the rotation engine (FileBuffer.go), the block header   *)
(* parser and scanner (Blocks.go), the configuration (Args.go) and the     *)
(* tasks that drive them (main, reader, processor, signal listener).       *)
(*                                                                         *)
(* The source files hold several revisions of the program one after the    *)
(* other.  The model follows the latest revision of every function: main,  *)
(* reader, processor in src/unnamed/part_000 lines 1-108, the engine in    *)
(* src/FileBuffer.go lines 421-710, the scanner in src/Blocks.go and the   *)
(* configuration in src/Args.go.                                           *)
(*                                                                         *)
(* Units: the gzip codec is opaque, so the size of a file on disk is       *)
(* counted in abstract units; a file that received no byte is below every  *)
(* threshold (file_size is at least 1 KB, Args.go:86 and Args.go:163).     *)
(***************************************************************************)
EXTENDS Integers, Sequences, FiniteSets, TLC

VARIABLES cfg, fb, disk, files, stream, cuts, writes, removed, removeFailures, pc,
          env, exitCode, blockHeader, scan,
          stdin, dataChannel, reader, processor, sigChan, handler, signals

\* the state of the pipeline around the engine: the input, the channel, the two
\* goroutines, the signal channel and its listener
pipeVars == <<stdin, dataChannel, reader, processor, sigChan, handler, signals>>

vars == <<cfg, fb, disk, files, stream, cuts, writes, removed, removeFailures, pc,
          env, exitCode, blockHeader, scan,
          stdin, dataChannel, reader, processor, sigChan, handler, signals>>

----------------------------------------------------------------------------
(* Bounds of the model. *)

\* bytes handed to the engine in one run
MaxInput == 7
\* --read_buffer_size: the processing chunk size
ReadBufferSize == 3
\* --max_block_size (Args.go:158 requires it to be at most the read buffer)
MaxBlockSize == 1
\* --file_size, in abstract units of compressed bytes
MaxFileSize == 2
\* --num_files ranges over 1..MaxNumFiles
MaxNumFiles == 2
\* counters of the files found on disk at startup range over 0..MaxPreCounter
MaxPreCounter == 2
\* timestamps of the files found on disk at startup range over 0..MaxPreStamp
MaxPreStamp == 0
\* at most this many matching files are on disk at startup
MaxExisting == 3

\* the capacity of dataChannel (100 in main), scaled down
ChannelCapacity == 2
\* SIGINT / SIGTERM sent to the process in one run
MaxSignals == 2

\* byte values of a stream read under a block header format: 1 is the magic
\* number and a length within maxBlockSize, 2 is neither
ByteVals == {1, 2}

\* the timestamp rendered into the names of the files this run creates: later
\* than the timestamp of every file found at startup
RunStamp == MaxPreStamp + 1

\* exitCode while the process runs
NotExited == -1

\* the exit status of a Go program that dies of a panic
PanicExit == 2

\* a nil *os.File / *gzip.Writer
NoFile == [counter |-> -1, ts |-> -1]

\* the scanner has not been called on its own
NoScan == [pc |-> "none"]

\* a nil *BlockHeaderFormat (parseBlockHeaderFormat never returns an empty field list)
NilFormat == [Fields |-> <<>>, TotalBytes |-> 0, HasLength |-> FALSE,
              LengthIndex |-> 0, Endianness |-> 0]

----------------------------------------------------------------------------
(* Helpers over sequences. *)

Min(a, b) == IF a < b THEN a ELSE b

\* data[from:] of Go, from counted from 0
SliceFrom(data, from) == SubSeq(data, from + 1, Len(data))

\* data[:to] of Go
SliceTo(data, to) == SubSeq(data, 1, to)

RECURSIVE Pow(_, _)
Pow(b, e) == IF e = 0 THEN 1 ELSE b * Pow(b, e - 1)

Reverse(s) == [i \in 1..Len(s) |-> s[Len(s) + 1 - i]]

----------------------------------------------------------------------------
(* 64-bit words.  A uint64 or an int64 is held as its eight bytes, the most *)
(* significant first; an int64 is in two's complement, so that the          *)
(* conversion between the two keeps the bytes and changes how they compare. *)

\* the word of a number from 0 to 2^31 - 1
Uint64(n) == [i \in 1..8 |-> IF i <= 4 THEN 0 ELSE (n \div Pow(256, 8 - i)) % 256]

\* the number a word below 2^24 denotes
IntOf(word) == word[6] * 65536 + word[7] * 256 + word[8]

\* a < b for two uint64
Less64(a, b) ==
    \E i \in 1..8 : a[i] < b[i] /\ \A j \in 1..(i - 1) : a[j] = b[j]

\* the borrow out of byte i in a - b
RECURSIVE Borrow(_, _, _)
Borrow(a, b, i) ==
    IF i > 8 THEN 0
    ELSE IF a[i] - b[i] - Borrow(a, b, i + 1) < 0 THEN 1 ELSE 0

\* a - b of two 64-bit words, which wraps around
Sub64(a, b) == [i \in 1..8 |-> (a[i] - b[i] - Borrow(a, b, i + 1)) % 256]

\* the sign bit of an int64
IsNegative(a) == a[1] >= 128

\* a < b for two int64
LessInt64(a, b) ==
    IF IsNegative(a) # IsNegative(b) THEN IsNegative(a) ELSE Less64(a, b)

\* the int64 of a number from -(2^31 - 1) to 2^31 - 1
Int64(n) == IF n < 0 THEN Sub64(Uint64(0), Uint64(-n)) ELSE Uint64(n)

----------------------------------------------------------------------------
(* Blocks.go: field types, the header format and the scanner. *)

FieldSec == 0
FieldUsec == 1
FieldNsec == 2
FieldLength == 3
FieldMagic == 4
FieldIgnore == 5

LittleEndian == 0
BigEndian == 1

\* <u8:0x01><u8:length>, as parseBlockHeaderFormat builds it
MagicLengthFormat ==
    [ Fields |-> << [Width |-> 8, Type |-> FieldMagic, MagicValue |-> Uint64(1), Signed |-> FALSE],
                    [Width |-> 8, Type |-> FieldLength, MagicValue |-> Uint64(0), Signed |-> FALSE] >>,
      TotalBytes |-> 2,
      HasLength |-> TRUE,
      LengthIndex |-> 1,
      Endianness |-> LittleEndian ]

(* The parser.  A format string is held as the sequence of its pieces: a    *)
(* piece is either a substring the regular expression                      *)
(* <([us])(\d+)(?::([^>]+))?> matches, with its three captures (the digits  *)
(* as a sequence of digits, the type as a sequence of characters), or a    *)
(* stretch of text in which it matches nothing.                            *)

Junk == [match |-> FALSE, signedness |-> "", digits |-> <<>>, typeStr |-> <<>>]

Token(signedness, digits, typeStr) ==
    [match |-> TRUE, signedness |-> signedness, digits |-> digits, typeStr |-> typeStr]

\* re.FindAllStringSubmatch(format, -1)
FindAllStringSubmatch(format) == SelectSeq(format, LAMBDA piece : piece.match)

RECURSIVE StripZeros(_)
StripZeros(digits) ==
    IF digits # <<>> /\ Head(digits) = 0 THEN StripZeros(Tail(digits)) ELSE digits

\* a > b for two digit strings of the same length
RECURSIVE DigitsGreater(_, _)
DigitsGreater(a, b) ==
    IF a = <<>> THEN FALSE
    ELSE IF Head(a) # Head(b) THEN Head(a) > Head(b)
    ELSE DigitsGreater(Tail(a), Tail(b))

\* the digits of 1<<63 - 1
MaxInt64Digits == <<9, 2, 2, 3, 3, 7, 2, 0, 3, 6, 8, 5, 4, 7, 7, 5, 8, 0, 7>>

\* err != nil of strconv.Atoi on a string of digits: the value is out of range
AtoiFails(digits) ==
    LET d == StripZeros(digits)
    IN  \/ Len(d) > Len(MaxInt64Digits)
        \/ Len(d) = Len(MaxInt64Digits) /\ DigitsGreater(d, MaxInt64Digits)

\* the value strconv.Atoi returns
RECURSIVE Atoi(_)
Atoi(digits) ==
    IF digits = <<>> THEN 0
    ELSE 10 * Atoi(SubSeq(digits, 1, Len(digits) - 1)) + digits[Len(digits)]

\* a width test that takes every width Atoi can read
InvalidWidthLax(digits) == AtoiFails(digits)

\* err != nil || (width != 8 && width != 16 && width != 32 && width != 64)
InvalidWidth(digits) == AtoiFails(digits) \/ Atoi(digits) \notin {8, 16, 32, 64}

HexDigits == <<"0", "1", "2", "3", "4", "5", "6", "7", "8", "9",
               "a", "b", "c", "d", "e", "f">>

UpperHexDigits == <<"0", "1", "2", "3", "4", "5", "6", "7", "8", "9",
                    "A", "B", "C", "D", "E", "F">>

IsHexDigit(c) == \E v \in 1..16 : HexDigits[v] = c \/ UpperHexDigits[v] = c

HexDigitValue(c) == (CHOOSE v \in 1..16 : HexDigits[v] = c \/ UpperHexDigits[v] = c) - 1

RECURSIVE StripHexZeros(_)
StripHexZeros(hex) ==
    IF hex # <<>> /\ Head(hex) = "0" THEN StripHexZeros(Tail(hex)) ELSE hex

\* err != nil of strconv.ParseUint(hex, 16, 64): no digit, a character that is
\* not a hexadecimal digit, or more than 64 bits
ParseUintFails(hex) ==
    \/ hex = <<>>
    \/ \E i \in 1..Len(hex) : ~IsHexDigit(hex[i])
    \/ Len(StripHexZeros(hex)) > 16

\* the value strconv.ParseUint(hex, 16, 64) returns: the last sixteen digits,
\* two a byte, after zeros to the left
ParseUint(hex) ==
    LET digits == [i \in 1..16 |-> "0"] \o hex
        at(k) == HexDigitValue(digits[Len(digits) - 16 + k])
    IN  [i \in 1..8 |-> 16 * at(2 * i - 1) + at(2 * i)]

\* strings.HasPrefix(typeStr, "0x")
HasPrefix0x(typeStr) == Len(typeStr) >= 2 /\ typeStr[1] = "0" /\ typeStr[2] = "x"

\* a parser that keeps the index of the first length field
RecordLengthFirst(result, i) ==
    IF result.HasLength THEN result
    ELSE [result EXCEPT !.HasLength = TRUE, !.LengthIndex = i]

\* case typeStr == "length": result.HasLength = true; result.LengthIndex = i
RecordLength(result, i) == [result EXCEPT !.HasLength = TRUE, !.LengthIndex = i]

\* the body of the loop of parseBlockHeaderFormat for match number i (from 0):
\* the result with the field appended, or the error that ends the process
ParseMatch(result, match, i) ==
    LET typeStr == match.typeStr
        width == Atoi(match.digits)
        field == [Width |-> width, Type |-> FieldIgnore, MagicValue |-> Uint64(0),
                  Signed |-> (match.signedness = "s")]
        add(f, r) == [r EXCEPT !.Fields = Append(@, f),
                               !.TotalBytes = @ + (width \div 8)]
    IN  IF InvalidWidth(match.digits) THEN [result EXCEPT !.error = "width"]
        ELSE IF typeStr = <<>> THEN add(field, result)
        ELSE IF typeStr = <<"s", "e", "c">>
             THEN add([field EXCEPT !.Type = FieldSec], result)
        ELSE IF typeStr = <<"u", "s", "e", "c">>
             THEN add([field EXCEPT !.Type = FieldUsec], result)
        ELSE IF typeStr = <<"n", "s", "e", "c">>
             THEN add([field EXCEPT !.Type = FieldNsec], result)
        ELSE IF typeStr = <<"l", "e", "n", "g", "t", "h">>
             THEN add([field EXCEPT !.Type = FieldLength], RecordLength(result, i))
        ELSE IF HasPrefix0x(typeStr)
             THEN IF ParseUintFails(SliceFrom(typeStr, 2))
                  THEN [result EXCEPT !.error = "magic"]
                  ELSE add([field EXCEPT !.Type = FieldMagic,
                                         !.MagicValue = ParseUint(SliceFrom(typeStr, 2))],
                           result)
        ELSE [result EXCEPT !.error = "type"]

\* the loop over the matches, which the first error leaves through os.Exit(1)
RECURSIVE ParseMatches(_, _, _)
ParseMatches(result, matches, i) ==
    IF i = Len(matches) \/ result.error # "" THEN result
    ELSE ParseMatches(ParseMatch(result, matches[i + 1], i), matches, i + 1)

\* parseBlockHeaderFormat: the format it returns, with the error that made it
\* exit ("" when it returned)
parseBlockHeaderFormat(format, endianness) ==
    LET result == [Fields |-> <<>>, TotalBytes |-> 0, HasLength |-> FALSE,
                   LengthIndex |-> 0, Endianness |-> endianness, error |-> ""]
        matches == FindAllStringSubmatch(format)
    IN  IF Len(matches) = 0 THEN [result EXCEPT !.error = "format"]
        ELSE ParseMatches(result, matches, 0)

\* the BlockHeaderFormat of a parse that returned
FormatOf(parsed) ==
    [Fields |-> parsed.Fields, TotalBytes |-> parsed.TotalBytes,
     HasLength |-> parsed.HasLength, LengthIndex |-> parsed.LengthIndex,
     Endianness |-> parsed.Endianness]

\* a decoder that reads every field as big-endian
DecodeUintBigOnly(data, offset, n, endianness) ==
    [i \in 1..(8 - n) |-> 0] \o SubSeq(data, offset + 1, offset + n)

\* binary.LittleEndian.UintN / binary.BigEndian.UintN of data[offset:], n bytes,
\* widened to a uint64
DecodeUint(data, offset, n, endianness) ==
    LET bytes == SubSeq(data, offset + 1, offset + n)
    IN  [i \in 1..(8 - n) |-> 0]
            \o (IF endianness = LittleEndian THEN Reverse(bytes) ELSE bytes)

\* int64(value) of a uint64: the same bytes, from 2^63 on a negative number
ToInt64(value) == value

\* the switch on field.Type of validateBlockHeader
FieldValid(field, value, maxBlockSize, now) ==
    CASE field.Type = FieldSec ->
            LET diff == Sub64(ToInt64(value), Int64(now))
            IN  ~(LessInt64(diff, Int64(-(48 * 3600))) \/ LessInt64(Int64(48 * 3600), diff))
      [] field.Type = FieldUsec -> ~Less64(Uint64(999999), value)
      [] field.Type = FieldNsec -> ~Less64(Uint64(999999999), value)
      [] field.Type = FieldLength -> ~Less64(Uint64(maxBlockSize), value)
      [] field.Type = FieldMagic -> ~(value # field.MagicValue)
      [] OTHER -> TRUE

\* a conversion that extends the sign bit of a field declared signed
WidenSigned(field, value) ==
    IF field.Signed /\ value[9 - field.Width \div 8] >= 128
    THEN [i \in 1..8 |-> IF i <= 8 - field.Width \div 8 THEN 255 ELSE value[i]]
    ELSE value

\* value = uint64(...) of the switch on field.Width: the bytes of the field are
\* widened with zeros, whether the field is declared signed or not
Widen(field, value) == value

\* the loop over the fields of validateBlockHeader, from field i at byte offset
RECURSIVE ValidateFields(_, _, _, _, _, _)
ValidateFields(data, format, i, offset, maxBlockSize, now) ==
    IF i > Len(format.Fields) THEN TRUE
    ELSE LET field == format.Fields[i]
             n == field.Width \div 8
         IN  IF offset + n > Len(data) THEN FALSE
             ELSE /\ FieldValid(field,
                                Widen(field, DecodeUint(data, offset, n, format.Endianness)),
                                maxBlockSize, now)
                  /\ ValidateFields(data, format, i + 1, offset + n, maxBlockSize, now)

validateBlockHeader(data, format, maxBlockSize, now) ==
    IF Len(data) < format.TotalBytes THEN FALSE
    ELSE ValidateFields(data, format, 1, 0, maxBlockSize, now)

\* the search loop of findBlockHeader: the first offset that validates
RECURSIVE FindFrom(_, _, _, _, _)
FindFrom(data, format, offset, maxBlockSize, now) ==
    IF offset > Len(data) - format.TotalBytes THEN Len(data)
    ELSE IF validateBlockHeader(SliceFrom(data, offset), format, maxBlockSize, now)
         THEN offset
         ELSE FindFrom(data, format, offset + 1, maxBlockSize, now)

\* a search that skips offset 0
findBlockHeaderFromOne(data, format, maxBlockSize, now) ==
    IF format = NilFormat THEN Len(data)
    ELSE FindFrom(data, format, 1, maxBlockSize, now)

findBlockHeader(data, format, maxBlockSize, now) ==
    IF format = NilFormat THEN Len(data)
    ELSE FindFrom(data, format, 0, maxBlockSize, now)

----------------------------------------------------------------------------
(* FileBuffer.go: the rotation engine.  An operation takes the world w     *)
(* (the FileBuffer struct, the directory, every file written so far) and   *)
(* returns the world it leaves.                                            *)

World == [fb |-> fb, disk |-> disk, files |-> files, cuts |-> cuts,
          writes |-> writes, removed |-> removed, removeFailures |-> removeFailures,
          exitCode |-> exitCode]

\* fmt.Sprintf("%s_%06d_%s.gz", prefix, fb.fileCounter, timestamp): the name is
\* decided by the counter and the rendered time
generateFilename(w) == [counter |-> w.fb.fileCounter, ts |-> RunStamp]

\* gzipWriter.Write(bytes) on the current file, the last one created; grow is
\* what the bytes add to the size on disk, at most one unit a byte
GzipWrite(w, bytes, grow) ==
    [w EXCEPT !.files[Len(w.files)] =
        [@ EXCEPT !.data = @ \o bytes,
                  !.size = Min(cfg.maxFileSize, @ + Min(grow, Len(bytes)))]]

\* an openNewFile that forgets the replay
ReplayedHeaderNone(w) == <<>>

\* the header bytes openNewFile replays into the file it created
ReplayedHeader(w) ==
    IF w.fb.headerCaptured /\ cfg.headerBytes > 0 THEN w.fb.header ELSE <<>>

\* an eviction test that lets the list grow one entry too long
MustEvictLate(w) == Len(w.fb.activeFiles) > cfg.maxNumFiles

\* the eviction test of openNewFile
MustEvict(w) == Len(w.fb.activeFiles) >= cfg.maxNumFiles

\* a list that keeps the oldest file when its removal failed
TrackedAfterEvictKeep(activeFiles, failed) ==
    IF failed THEN activeFiles ELSE Tail(activeFiles)

\* fb.activeFiles = fb.activeFiles[1:], after the if / else on the error of os.Remove
TrackedAfterEvict(activeFiles, failed) == Tail(activeFiles)

\* the eviction of openNewFile: os.Remove of the oldest file, which is dropped
\* from activeFiles whether or not the removal failed
EvictOldest(w, removeFails) ==
    IF MustEvict(w)
    THEN LET oldestFile == Head(w.fb.activeFiles)
             \* removing a file that is not there is not an error (os.IsNotExist)
             failed == removeFails /\ oldestFile \in w.disk
         IN  [w EXCEPT !.disk = IF failed THEN @ ELSE @ \ {oldestFile},
                       !.removed = IF failed THEN @ ELSE @ \cup {oldestFile},
                       !.removeFailures = IF failed THEN @ + 1 ELSE @,
                       !.fb.activeFiles = TrackedAfterEvict(@, failed)]
    ELSE w

\* a counter that is not advanced
NextCounterStuck(c) == c

\* fb.fileCounter++
NextCounter(c) == c + 1

\* an openNewFile that prints the error and goes on
ExitOnErrorNot(w) == w

\* os.Exit(1) in the error branches of openNewFile
ExitOnError(w) == [w EXCEPT !.exitCode = 1]

\* openNewFile; io.create says which of its calls fails, os.Create or the Write
\* of the replayed header.  (gzip.NewWriterLevel fails only on a level outside
\* -2..9, which processArgs has refused.)  os.Create that fails leaves no file;
\* a Write of the header that fails leaves the file empty, and counted.
openNewFile(w, removeFails, grow, io) ==
    LET w1 == EvictOldest(w, removeFails)
        filename == generateFilename(w1)
        headerFails == io.create = "header" /\ ReplayedHeader(w1) # <<>>
        w2 == [w1 EXCEPT !.disk = @ \cup {filename},
                         !.files = Append(@, [name |-> filename, data |-> <<>>,
                                              hdr |-> IF headerFails THEN 0
                                                      ELSE Len(ReplayedHeader(w1)),
                                              size |-> 0,
                                              closes |-> <<>>]),
                         !.fb.currentFile = filename,
                         !.fb.gzipWriter = filename,
                         !.fb.fileCounter = NextCounter(@),
                         !.fb.activeFiles = Append(@, filename)]
    IN  IF io.create = "create" THEN ExitOnError(w1)
        ELSE IF headerFails THEN ExitOnError(w2)
        ELSE GzipWrite(w2, ReplayedHeader(w2), grow)

\* a close that takes the file first
CloseCallsFileFirst(gzipClose, fileClose) == fileClose \o gzipClose

\* the Close calls of closeCurrentFile in the order it makes them
CloseCalls(gzipClose, fileClose) == gzipClose \o fileClose

\* a rotation that leaves the old file open
closeCurrentFileNot(w, io) == w

\* closeCurrentFile; the Close calls it makes are kept with the file, the last
\* one created.  When gzipWriter.Close() fails the file is closed in the error
\* branch and once more after it.
closeCurrentFile(w, io) ==
    IF w.fb.gzipWriter = NoFile /\ w.fb.currentFile = NoFile THEN w
    ELSE LET gzipClose ==
                 IF w.fb.gzipWriter # NoFile
                 THEN <<"gzip">> \o (IF io.close /\ w.fb.currentFile # NoFile
                                     THEN <<"file">> ELSE <<>>)
                 ELSE <<>>
             fileClose == IF w.fb.currentFile # NoFile THEN <<"file">> ELSE <<>>
         IN  [w EXCEPT !.files[Len(w.files)].closes = @ \o CloseCalls(gzipClose, fileClose),
                       !.fb.gzipWriter = NoFile,
                       !.fb.currentFile = NoFile]

\* a capture at every write
NeedsCaptureEveryWrite(w) == cfg.headerBytes > 0

\* !fb.headerCaptured && fb.headerBytes > 0
NeedsCapture(w) == ~w.fb.headerCaptured /\ cfg.headerBytes > 0

\* the header capture at the top of write
CaptureHeader(w, data) ==
    IF NeedsCapture(w)
    THEN LET bytesToCapture == IF Len(data) < cfg.headerBytes THEN Len(data)
                               ELSE cfg.headerBytes
         IN  [w EXCEPT !.fb.header = SliceTo(data, bytesToCapture),
                       !.fb.headerCaptured = TRUE]
    ELSE w

\* currentFile.Stat().Size() after the Flush
StatSize(w) == w.files[Len(w.files)].size

\* a cut at the start of the chunk whatever the scanner says
NextBlockOffsetZero(data) == 0

\* a cut in the middle of the chunk
NextBlockOffsetHalf(data) == (Len(data) + 1) \div 2

\* nextBlockOffset of write
NextBlockOffset(data) ==
    IF cfg.blockFormat # NilFormat
    THEN findBlockHeader(data, cfg.blockFormat, cfg.maxBlockSize, cfg.now)
    ELSE 0

\* a rest that starts one byte late
RestAfterCutLate(data, n) == SliceFrom(data, n + 1)

\* a rest that repeats the bytes already written to the old file
RestAfterCutWhole(data, n) == data

\* data = data[n:] of write
RestAfterCut(data, n) == SliceFrom(data, n)

\* a write that never rotates
MustRotateNever(w) == FALSE

\* the rotate condition of write
MustRotate(w) == StatSize(w) >= cfg.maxFileSize

\* what the calls of one write do: each of Flush, Stat and Write fails or not
NoFaults == [flush |-> FALSE, stat |-> FALSE, write |-> FALSE, close |-> FALSE,
             create |-> "ok"]

\* n of n, err := fb.gzipWriter.Write(bytes): a Write that fails takes no byte
Written(bytes, io) == IF io.write THEN 0 ELSE Len(bytes)

\* write(data); base is the number of stream bytes written before this call.
\* A Flush or a Write that fails is printed and nothing else.  A Stat that fails
\* returns a nil FileInfo, and fileInfo.Size() on it is a nil dereference: the
\* goroutine panics and the process dies, as it does when gzipWriter is nil at
\* the Flush.  When openNewFile exits the process nothing more is written.
write(w, data, removeFails, grow, base, io) ==
    LET w1 == CaptureHeader([w EXCEPT !.writes = Append(@, Len(data))], data)
    IN  IF w1.fb.gzipWriter = NoFile \/ io.stat THEN [w1 EXCEPT !.exitCode = PanicExit]
        ELSE IF MustRotate(w1)
        THEN LET nextBlockOffset == NextBlockOffset(data)
                 n == Written(SliceTo(data, nextBlockOffset), io)
                 w2 == GzipWrite(w1, SliceTo(data, n), grow)
                 w3 == closeCurrentFile(w2, io)
                 rest == RestAfterCut(data, n)
                 w4 == openNewFile(w3, removeFails, grow, io)
                 w5 == [w4 EXCEPT !.cuts = Append(@, [at |-> base + n,
                                                     offset |-> nextBlockOffset,
                                                     window |-> data])]
             IN  IF w4.exitCode # NotExited THEN w4
                 ELSE GzipWrite(w5, SliceTo(rest, Written(rest, io)), grow)
        ELSE GzipWrite(w1, SliceTo(data, Written(data, io)), grow)

\* a list left in the order of the directory
IsSortedNot(order) == TRUE

\* the files of the directory that match the naming pattern, sorted by counter
\* (sort.Slice is not stable: files of equal counter come in any order)
IsSortedByCounter(order) ==
    \A i \in 1..(Len(order) - 1) : ~(order[i + 1].counter < order[i].counter)

SortedOrders(S) ==
    { order \in [1..Cardinality(S) -> S] :
        /\ \A f \in S : \E i \in 1..Cardinality(S) : order[i] = f
        /\ IsSortedByCounter(order) }

\* the counter of the highest file itself, as an earlier revision resumed
ResumeCounterMax(matchedFiles) == matchedFiles[Len(matchedFiles)].counter

\* the counter loadExistingFiles resumes from
ResumeCounter(matchedFiles) == matchedFiles[Len(matchedFiles)].counter + 1

\* the files loadExistingFiles keeps
Survivors(matchedFiles) ==
    IF Len(matchedFiles) > cfg.maxNumFiles
    THEN SliceFrom(matchedFiles, Len(matchedFiles) - cfg.maxNumFiles)
    ELSE matchedFiles

\* loadExistingFiles; matchedFiles is the sorted list, failed the removals that fail
loadExistingFiles(w, matchedFiles, failed) ==
    LET filesToDelete == IF Len(matchedFiles) > cfg.maxNumFiles
                         THEN SliceTo(matchedFiles, Len(matchedFiles) - cfg.maxNumFiles)
                         ELSE <<>>
        gone == { filesToDelete[i] : i \in 1..Len(filesToDelete) } \ failed
        kept == Survivors(matchedFiles)
    IN  [w EXCEPT !.disk = @ \ gone,
                  !.removed = @ \cup gone,
                  !.removeFailures = @ + Cardinality(failed),
                  !.fb.activeFiles = kept,
                  !.fb.fileCounter = IF Len(kept) > 0 THEN ResumeCounter(kept) ELSE @]

----------------------------------------------------------------------------
(* The run: main (resume, first file, final close) and the processor, which *)
(* hands the engine chunks of readBufferSize bytes and a shorter last one.  *)

\* the names a file left by an earlier run can have
PreNames == [counter : 0..MaxPreCounter, ts : 0..MaxPreStamp]

ExistingSets == { S \in SUBSET PreNames : Cardinality(S) <= MaxExisting }

\* the files left by runs that each started at counter 0, one of them at a
\* timestamp before those of PreNames: names of equal counter are among them
RerunSets ==
    { S \in SUBSET [counter : 0..MaxPreCounter, ts : (-1)..MaxPreStamp] :
        Cardinality(S) <= MaxExisting }

\* processArgs: the configurations the flags can give
PlainConfigs ==
    [ maxNumFiles : 1..MaxNumFiles,
      headerBytes : {0, 1, ReadBufferSize},
      blockFormat : {NilFormat},
      maxBlockSize : {MaxBlockSize},
      readBufferSize : {ReadBufferSize},
      maxFileSize : {MaxFileSize},
      resumeExisting : BOOLEAN,
      now : {0} ]

FormatConfigs ==
    [ maxNumFiles : 1..MaxNumFiles,
      headerBytes : {0, ReadBufferSize},
      blockFormat : {MagicLengthFormat},
      maxBlockSize : {MaxBlockSize, ReadBufferSize},
      readBufferSize : {ReadBufferSize},
      maxFileSize : {MaxFileSize},
      resumeExisting : {FALSE},
      now : {0} ]

\* a FileBuffer that starts with a header already in hand
NewFileBufferCaptured ==
    [header |-> <<255>>, headerCaptured |-> TRUE, currentFile |-> NoFile,
     gzipWriter |-> NoFile, fileCounter |-> 0, activeFiles |-> <<>>]

\* the FileBuffer processArgs returns
NewFileBuffer == [header |-> <<>>, headerCaptured |-> FALSE, currentFile |-> NoFile,
                  gzipWriter |-> NoFile, fileCounter |-> 0, activeFiles |-> <<>>]

\* --block_header '<u8:0x01><u8:length>'
MagicLengthArg ==
    << Token("u", <<8>>, <<"0", "x", "0", "1">>),
       Token("u", <<8>>, <<"l", "e", "n", "g", "t", "h">>) >>

\* the pipeline as main builds it: nothing read, an open empty channel, the
\* goroutines at their first statement, no signal sent
PipelineInit ==
    /\ stdin = [pos |-> 0, closed |-> FALSE]
    /\ dataChannel = [buf |-> <<>>, closed |-> FALSE]
    /\ reader = [pc |-> "read", dataToSend |-> <<>>, err |-> FALSE]
    /\ processor = [pc |-> "range", processingBuffer |-> <<>>]
    /\ sigChan = 0
    /\ handler = "first"
    /\ signals = 0

\* the state when processArgs has returned
InitWith(e) ==
    /\ \/ /\ cfg \in PlainConfigs /\ blockHeader = <<>>
          /\ disk \in (IF e = "reruns" THEN RerunSets ELSE ExistingSets)
       \/ cfg \in FormatConfigs /\ disk = {} /\ blockHeader = MagicLengthArg
    /\ fb = NewFileBuffer
    /\ files = <<>>
    /\ stream = <<>>
    /\ cuts = <<>>
    /\ writes = <<>>
    /\ scan = NoScan
    /\ removed = {}
    /\ removeFailures = 0
    /\ pc = "start"
    /\ env = e
    /\ exitCode = NotExited
    /\ PipelineInit

\* every file system call succeeds
Init == InitWith("ok")

\* os.Remove may fail
InitFaults == InitWith("faulty")

\* Flush, Stat and Write on the current file may fail; the directory starts empty
InitIO == InitWith("io") /\ disk = {} /\ ~cfg.resumeExisting

RemoveOutcomes == IF env = "faulty" THEN BOOLEAN ELSE {FALSE}

IOOutcomes ==
    IF env = "io"
    THEN [flush : BOOLEAN, stat : BOOLEAN, write : BOOLEAN, close : {FALSE}, create : {"ok"}]
    ELSE IF env = "close"
    THEN [flush : {FALSE}, stat : {FALSE}, write : {FALSE}, close : BOOLEAN, create : {"ok"}]
    ELSE IF env = "create"
    THEN [flush : {FALSE}, stat : {FALSE}, write : {FALSE}, close : {FALSE},
          create : {"ok", "create", "header"}]
    ELSE {NoFaults}

\* what a write can add to the size of the file: anything up to the threshold,
\* and with incompressible input one unit a byte
Growths == IF env = "incompressible" THEN {cfg.maxFileSize} ELSE 0..cfg.maxFileSize

Running == exitCode = NotExited

Apply(w) ==
    /\ fb' = w.fb
    /\ disk' = w.disk
    /\ files' = w.files
    /\ cuts' = w.cuts
    /\ writes' = w.writes
    /\ removed' = w.removed
    /\ removeFailures' = w.removeFailures
    /\ exitCode' = w.exitCode

\* the bytes the input can deliver next: without a block header format no byte is
\* ever inspected, and byte i of the stream has the value i
PlainChunk(base, n) == [i \in 1..n |-> (base + i - 1) % 256]

Chunks(n) ==
    IF cfg.blockFormat = NilFormat THEN {PlainChunk(Len(stream), n)}
    ELSE [1..n -> ByteVals]

\* main: if fb.resumeExisting { fb.loadExistingFiles() }
Resume ==
    /\ pc = "start" /\ Running
    /\ IF cfg.resumeExisting
       THEN \E matchedFiles \in SortedOrders(disk) :
            \E failed \in SUBSET disk :
               /\ failed # {} => env = "faulty"
               /\ \A f \in failed :
                     \E i \in 1..(Len(matchedFiles) - cfg.maxNumFiles) : matchedFiles[i] = f
               /\ Apply(loadExistingFiles(World, matchedFiles, failed))
       ELSE UNCHANGED <<fb, disk, files, cuts, writes, removed, removeFailures, exitCode>>
    /\ pc' = "loaded"
    /\ UNCHANGED <<cfg, stream, env, blockHeader, scan, pipeVars>>

\* main: fb.openNewFile(), before the processor starts
OpenFirst ==
    /\ pc = "loaded" /\ Running
    /\ \E removeFails \in RemoveOutcomes :
       \E io \in IOOutcomes : Apply(openNewFile(World, removeFails, 0, io))
    /\ pc' = "running"
    /\ UNCHANGED <<cfg, stream, env, blockHeader, scan, pipeVars>>

\* processor: a chunk of readBufferSize bytes is cut off the buffer and written
ProcessChunk ==
    /\ pc = "running" /\ Running
    /\ Len(stream) + cfg.readBufferSize <= MaxInput
    /\ \E data \in Chunks(cfg.readBufferSize) :
       \E removeFails \in RemoveOutcomes :
       \E grow \in Growths :
       \E io \in IOOutcomes :
          /\ Apply(write(World, data, removeFails, grow, Len(stream), io))
          /\ stream' = stream \o data
    /\ UNCHANGED <<cfg, pc, env, blockHeader, scan, pipeVars>>

\* processor: the channel is closed and drained; what is left is written
ProcessFinal ==
    /\ pc = "running" /\ Running
    /\ \E n \in 0..(cfg.readBufferSize - 1) :
          /\ Len(stream) + n <= MaxInput
          /\ IF n > 0
             THEN \E data \in Chunks(n) :
                  \E removeFails \in RemoveOutcomes :
                  \E grow \in Growths :
                  \E io \in IOOutcomes :
                     /\ Apply(write(World, data, removeFails, grow, Len(stream), io))
                     /\ stream' = stream \o data
             ELSE UNCHANGED <<fb, disk, files, cuts, writes, removed, removeFailures, stream,
                              exitCode>>
    /\ pc' = "drained"
    /\ UNCHANGED <<cfg, env, blockHeader, scan, pipeVars>>

\* main: wg.Wait() returned; fb.closeCurrentFile(), and main returns
Shutdown ==
    /\ pc = "drained" /\ Running
    /\ \E io \in IOOutcomes : Apply([closeCurrentFile(World, io) EXCEPT !.exitCode = 0])
    /\ pc' = "closed"
    /\ UNCHANGED <<cfg, stream, env, blockHeader, scan, pipeVars>>

\* the program with the processor taken as one task that hands the engine the
\* input in chunks
Next == Resume \/ OpenFirst \/ ProcessChunk \/ ProcessFinal \/ Shutdown

Spec == Init /\ [][Next]_vars

SpecFaults == InitFaults /\ [][Next]_vars

SpecIO == InitIO /\ [][Next]_vars

\* the directory holds the files of several earlier runs
SpecReruns == InitWith("reruns") /\ [][Next]_vars

----------------------------------------------------------------------------
(* processArgs with a --block_header flag: the program from its first       *)
(* statement, for a choice of format strings.                              *)

\* tokens parseBlockHeaderFormat accepts
GoodTokens ==
    { Token("u", <<8>>, <<"0", "x", "0", "1">>),
      Token("u", <<8>>, <<"l", "e", "n", "g", "t", "h">>),
      Token("s", <<1, 6>>, <<>>),
      Token("u", <<0, 8>>, <<"u", "s", "e", "c">>),
      Token("u", <<3, 2>>, <<"n", "s", "e", "c">>),
      Token("s", <<6, 4>>, <<"s", "e", "c">>),
      Token("u", <<1, 6>>, <<"0", "x", "f", "F">>) }

\* tokens the regular expression matches and parseBlockHeaderFormat rejects: a
\* width of 7, one of 0, one that overflows an int, an unknown keyword, 0x with no
\* digit, with a digit that is none, in upper case, and with 17 digits
BadTokens ==
    { Token("u", <<7>>, <<>>),
      Token("u", <<0>>, <<"s", "e", "c">>),
      Token("u", [i \in 1..20 |-> 9], <<>>),
      Token("u", <<8>>, <<"f", "o", "o">>),
      Token("u", <<8>>, <<"0", "x">>),
      Token("u", <<8>>, <<"0", "x", "g", "1">>),
      Token("u", <<8>>, <<"0", "X", "0", "1">>),
      Token("u", <<8>>, <<"0", "x", "1">> \o [i \in 1..16 |-> "0"]) }

Pieces == GoodTokens \cup BadTokens \cup {Junk}

\* the pieces tried in second place
SecondPieces ==
    { Token("u", <<8>>, <<"0", "x", "0", "1">>),
      Token("u", <<8>>, <<"l", "e", "n", "g", "t", "h">>),
      Token("u", <<8>>, <<"f", "o", "o">>),
      Junk }

\* the values of --block_header
FormatArgs ==
    { <<p>> : p \in Pieces } \cup { <<p, q>> : p \in Pieces, q \in SecondPieces }

\* --endianness
ByteOrders == {LittleEndian}

\* the files found in the directory: two of an earlier run
ArgsDisk == { name \in PreNames : name.ts = 0 /\ name.counter <= 1 }

ArgsConfigs ==
    [ maxNumFiles : {1},
      headerBytes : {0},
      blockFormat : {NilFormat},
      maxBlockSize : {MaxBlockSize},
      readBufferSize : {ReadBufferSize},
      maxFileSize : {MaxFileSize},
      resumeExisting : {TRUE},
      now : {0} ]

\* the state in which main calls processArgs
InitArgs ==
    /\ cfg \in ArgsConfigs /\ disk = ArgsDisk /\ blockHeader \in FormatArgs
    /\ fb = NewFileBuffer
    /\ files = <<>>
    /\ stream = <<>>
    /\ cuts = <<>>
    /\ writes = <<>>
    /\ scan = NoScan
    /\ removed = {}
    /\ removeFailures = 0
    /\ pc = "args"
    /\ env = "ok"
    /\ exitCode = NotExited
    /\ PipelineInit

\* a processArgs that goes on after an error of the parser
ParseFailedNever(parsed) == FALSE

\* parseBlockHeaderFormat called os.Exit(1)
ParseFailed(parsed) == parsed.error # ""

\* main: fb := processArgs(), from the test of *blockHeader on
ProcessArgs ==
    /\ pc = "args" /\ Running
    /\ IF blockHeader # <<>>
       THEN \E byteOrder \in ByteOrders :
            \E parsed \in {parseBlockHeaderFormat(blockHeader, byteOrder)} :
               IF ParseFailed(parsed)
               THEN exitCode' = 1 /\ pc' = "exited" /\ UNCHANGED cfg
               ELSE /\ cfg' = [cfg EXCEPT !.blockFormat = FormatOf(parsed)]
                    /\ pc' = "start"
                    /\ UNCHANGED exitCode
       ELSE pc' = "start" /\ UNCHANGED <<cfg, exitCode>>
    /\ UNCHANGED <<fb, disk, files, stream, cuts, writes, removed, removeFailures, env,
                   blockHeader, scan, pipeVars>>

NextArgs == ProcessArgs \/ Next

SpecArgs == InitArgs /\ [][NextArgs]_vars

----------------------------------------------------------------------------
(* The scenario of 300 KB of incompressible input with file_size 100 KB and *)
(* num_files 3, in units of 50 KB: the default read buffer of 256 KB is     *)
(* more than two files long and less than three.                           *)

ScenarioFileSize == MaxFileSize

ScenarioNumFiles == MaxNumFiles + 1

ScenarioInput == ScenarioNumFiles * ScenarioFileSize

\* --read_buffer_size at its default
ScenarioReadBuffer == 2 * ScenarioFileSize + 1

\* the scenario, with the read buffer at its default and at every smaller size
ScenarioConfigs ==
    [ maxNumFiles : 1..ScenarioNumFiles,
      headerBytes : {0},
      blockFormat : {NilFormat},
      maxBlockSize : {MaxBlockSize},
      readBufferSize : 1..ScenarioReadBuffer,
      maxFileSize : {ScenarioFileSize},
      resumeExisting : {FALSE},
      now : {0} ]

InitScenario ==
    /\ cfg \in ScenarioConfigs /\ disk = {} /\ blockHeader = <<>>
    /\ fb = NewFileBuffer
    /\ files = <<>>
    /\ stream = <<>>
    /\ cuts = <<>>
    /\ writes = <<>>
    /\ scan = NoScan
    /\ removed = {}
    /\ removeFailures = 0
    /\ pc = "start"
    /\ env = "incompressible"
    /\ exitCode = NotExited
    /\ PipelineInit

SpecScenario == InitScenario /\ [][Next]_vars

----------------------------------------------------------------------------
(* closeCurrentFile called where main does not call it: before the first    *)
(* file is opened and once more after the last close.  gzipWriter.Close()   *)
(* may fail.                                                                *)

InitClose ==
    /\ InitWith("close")
    /\ cfg.blockFormat = NilFormat /\ ~cfg.resumeExisting /\ disk = {}

\* fb.closeCurrentFile() on the FileBuffer processArgs returned
CloseUnopened ==
    /\ pc = "loaded"
    /\ \E io \in IOOutcomes : Apply(closeCurrentFile(World, io))
    /\ pc' = "unopened"
    /\ UNCHANGED <<cfg, stream, env, blockHeader, scan, pipeVars>>

\* fb.closeCurrentFile() a second time in a row
CloseAgain ==
    /\ pc = "closed"
    /\ \E io \in IOOutcomes : Apply(closeCurrentFile(World, io))
    /\ pc' = "reclosed"
    /\ UNCHANGED <<cfg, stream, env, blockHeader, scan, pipeVars>>

NextClose == Next \/ CloseUnopened \/ CloseAgain

SpecClose == InitClose /\ [][NextClose]_vars

----------------------------------------------------------------------------
(* The scanner on its own: validateBlockHeader and findBlockHeader applied  *)
(* to a window of bytes, for a choice of formats, clocks and windows built  *)
(* around the limits of every field type.                                   *)

\* a + b of two 64-bit words, which wraps around
Add64(a, b) == Sub64(a, Sub64(Uint64(0), b))

\* 48 hours after the epoch, a clock of today, and a clock that was never set
ScanClocks == {0, 100, 48 * 3600, 1700000000}

\* the widest --max_block_size the scanner is tried with
ScanMaxBlockSize == 300

Field(width, type, magic) ==
    [Width |-> width, Type |-> type, MagicValue |-> magic, Signed |-> FALSE]

\* the format parseBlockHeaderFormat builds from a list of fields
FormatWith(fields, endianness) ==
    LET RECURSIVE Bytes(_)
        Bytes(i) == IF i = 0 THEN 0 ELSE Bytes(i - 1) + fields[i].Width \div 8
        lengths == { i \in 1..Len(fields) : fields[i].Type = FieldLength }
    IN  [ Fields |-> fields, TotalBytes |-> Bytes(Len(fields)),
          HasLength |-> lengths # {},
          LengthIndex |-> IF lengths = {} THEN 0
                          ELSE (CHOOSE i \in lengths : \A j \in lengths : j <= i) - 1,
          Endianness |-> endianness ]

\* <uN:sec> for every width
SecFormats ==
    { FormatWith(<<Field(width, FieldSec, Uint64(0))>>, endianness) :
        width \in {8, 16, 32, 64}, endianness \in {LittleEndian, BigEndian} }

\* <u32:sec><u32:usec><u32:length><u32>, the header of a pcap record
PcapFormat ==
    FormatWith(<<Field(32, FieldSec, Uint64(0)), Field(32, FieldUsec, Uint64(0)),
                 Field(32, FieldLength, Uint64(0)), Field(32, FieldIgnore, Uint64(0))>>,
               LittleEndian)

\* formats without a sec field: every other type, narrow and wide, in both orders
PlainFormats ==
    { FormatWith(fields, endianness) :
        fields \in { <<Field(8, FieldMagic, Uint64(1)), Field(8, FieldLength, Uint64(0))>>,
                     <<Field(8, FieldMagic, Uint64(170)), Field(16, FieldLength, Uint64(0)),
                       Field(8, FieldIgnore, Uint64(0))>>,
                     <<Field(16, FieldMagic, Uint64(258)), Field(32, FieldUsec, Uint64(0))>>,
                     <<Field(32, FieldNsec, Uint64(0)), Field(8, FieldMagic, Uint64(2))>>,
                     <<Field(64, FieldUsec, Uint64(0))>>,
                     <<Field(64, FieldMagic, Add64(Uint64(1), Int64(-2)))>> },
        endianness \in {LittleEndian, BigEndian} }

\* the n low bytes of a word in the byte order of the format
Encode(word, n, endianness) ==
    LET bytes == SubSeq(word, 9 - n, 8)
    IN  IF endianness = LittleEndian THEN Reverse(bytes) ELSE bytes

\* the values tried for a field: the ends of the range of every width and the
\* limits of its type, from either side
FieldSamples(field, maxBlockSize, now) ==
    LET around(n) == { Uint64(n), Add64(Uint64(n), Uint64(1)) }
    IN  { Uint64(0), Int64(-1) }
        \cup CASE field.Type = FieldSec ->
                    { Add64(Int64(now), Int64(d)) :
                        d \in {0, 48 * 3600, 48 * 3600 + 1, -(48 * 3600), -(48 * 3600) - 1} }
                    \cup { [i \in 1..8 |-> IF i = 1 THEN 128 ELSE 0],
                           [i \in 1..8 |-> IF i = 1 THEN 127 ELSE 255] }
               [] field.Type = FieldUsec -> around(999999)
               [] field.Type = FieldNsec -> around(999999999)
               [] field.Type = FieldLength -> around(maxBlockSize)
               [] field.Type = FieldMagic ->
                    { field.MagicValue, Add64(field.MagicValue, Uint64(1)) }
               [] OTHER -> {}

\* the headers tried for a format: a sample for every field, one after the other
RECURSIVE Headers(_, _, _, _)
Headers(format, i, maxBlockSize, now) ==
    IF i = 0 THEN { <<>> }
    ELSE { head \o Encode(word, format.Fields[i].Width \div 8, format.Endianness) :
             head \in Headers(format, i - 1, maxBlockSize, now),
             word \in FieldSamples(format.Fields[i], maxBlockSize, now) }

\* what comes before a header in a window
Prefixes == { <<>>, <<1>>, <<255, 0>> }

\* the windows tried for a format: a header, whole or short of its last byte or
\* followed by one more, after a prefix
Windows(format, maxBlockSize, now) ==
    { prefix \o SliceTo(header \o <<1>>, Len(header) + extra) :
        prefix \in Prefixes,
        header \in Headers(format, Len(format.Fields), maxBlockSize, now),
        extra \in {-1, 0, 1} }

\* a call of the scanner: the format, --max_block_size, time.Now().Unix() and
\* the window, with what validateBlockHeader and findBlockHeader returned
ScanOf(format, maxBlockSize, now, window) ==
    [pc |-> "called", format |-> format, maxBlockSize |-> maxBlockSize, now |-> now,
     window |-> window, valid |-> FALSE, offset |-> 0]

InitScan ==
    /\ \E format \in SecFormats \cup PlainFormats \cup {PcapFormat} :
       \E maxBlockSize \in {MaxBlockSize, ScanMaxBlockSize} :
       \E now \in ScanClocks :
       \E window \in Windows(format, maxBlockSize, now) :
          /\ format \in PlainFormats => now = 0
          /\ format \notin PlainFormats => maxBlockSize = ScanMaxBlockSize
          /\ format = PcapFormat => now \in {100, 1700000000}
          /\ scan = ScanOf(format, maxBlockSize, now, window)
    /\ cfg \in ArgsConfigs /\ disk = {} /\ blockHeader = <<>>
    /\ fb = NewFileBuffer
    /\ files = <<>>
    /\ stream = <<>>
    /\ cuts = <<>>
    /\ writes = <<>>
    /\ removed = {}
    /\ removeFailures = 0
    /\ pc = "scan"
    /\ env = "ok"
    /\ exitCode = NotExited
    /\ PipelineInit

\* fb.validateBlockHeader(window)
Validate ==
    /\ pc = "scan" /\ scan.pc = "called"
    /\ scan' = [scan EXCEPT !.pc = "validated",
                            !.valid = validateBlockHeader(scan.window, scan.format,
                                                          scan.maxBlockSize, scan.now)]
    /\ UNCHANGED <<cfg, fb, disk, files, stream, cuts, writes, removed, removeFailures, pc,
                   env, exitCode, blockHeader, pipeVars>>

\* fb.findBlockHeader(window)
Find ==
    /\ pc = "scan" /\ scan.pc = "called"
    /\ scan' = [scan EXCEPT !.pc = "found",
                            !.offset = findBlockHeader(scan.window, scan.format,
                                                       scan.maxBlockSize, scan.now)]
    /\ UNCHANGED <<cfg, fb, disk, files, stream, cuts, writes, removed, removeFailures, pc,
                   env, exitCode, blockHeader, pipeVars>>

NextScan == Validate \/ Find

SpecScan == InitScan /\ [][NextScan]_vars

----------------------------------------------------------------------------
(* The pipeline: main, the reader and the processor goroutines around       *)
(* dataChannel, and the goroutine that listens on sigChan.  main, once it   *)
(* has opened the first file, starts the two goroutines and waits for the   *)
(* processor.                                                              *)

\* the run whose interleavings are explored: no block header format, nothing on
\* disk, no resume
PipelineConfigs ==
    [ maxNumFiles : {MaxNumFiles},
      headerBytes : {0},
      blockFormat : {NilFormat},
      maxBlockSize : {MaxBlockSize},
      readBufferSize : {ReadBufferSize},
      maxFileSize : {MaxFileSize},
      resumeExisting : {FALSE},
      now : {0} ]

InitPipeline == InitWith("ok") /\ cfg \in PipelineConfigs /\ disk = {}

\* signal.Notify was called and main has not returned
Listening == pc \in {"loaded", "running", "drained"}

\* a SIGINT or SIGTERM arrives: the runtime sends it to sigChan without blocking,
\* and drops it when the one slot of the channel is taken
Signal ==
    /\ Running /\ Listening
    /\ signals < MaxSignals
    /\ signals' = signals + 1
    /\ sigChan' = Min(1, sigChan + 1)
    /\ UNCHANGED <<cfg, fb, disk, files, stream, cuts, writes, removed, removeFailures, pc, env,
                   exitCode, blockHeader, scan, stdin, dataChannel, reader, processor, handler>>

\* signal goroutine: sig := <-sigChan; os.Stdin.Close()
HandleFirst ==
    /\ Running /\ Listening
    /\ handler = "first" /\ sigChan > 0
    /\ sigChan' = sigChan - 1
    /\ stdin' = [stdin EXCEPT !.closed = TRUE]
    /\ handler' = "second"
    /\ UNCHANGED <<cfg, fb, disk, files, stream, cuts, writes, removed, removeFailures, pc, env,
                   exitCode, blockHeader, scan, dataChannel, reader, processor, signals>>

\* a listener that exits on whatever signal it receives
AtSecondReceiveAny(h) == TRUE

\* the listener is at its second <-sigChan
AtSecondReceive(h) == h = "second"

\* signal goroutine: <-sigChan; os.Exit(1)
HandleSecond ==
    /\ Running /\ Listening
    /\ AtSecondReceive(handler) /\ sigChan > 0
    /\ sigChan' = sigChan - 1
    /\ exitCode' = 1
    /\ handler' = "exited"
    /\ UNCHANGED <<cfg, fb, disk, files, stream, cuts, writes, removed, removeFailures, pc, env,
                   blockHeader, scan, stdin, dataChannel, reader, processor, signals>>

\* goroutines that run before main has opened the first file
GoroutinesStartedEarly == pc \in {"loaded", "running"}

\* main has reached go processor(...) and go reader(...), after fb.openNewFile(),
\* and has not returned from wg.Wait()
GoroutinesStarted == pc = "running"

\* a reader that returns without closing the channel
CloseChannelNot(ch) == ch

\* close(dataChannel), deferred by reader
CloseChannel(ch) == [ch EXCEPT !.closed = TRUE]

\* reader: os.Stdin.Read(readBuffer) is called; on a closed file it fails at
\* once, the loop breaks and the channel is closed
ReaderCall ==
    /\ Running /\ GoroutinesStarted
    /\ reader.pc = "read"
    /\ IF stdin.closed
       THEN /\ reader' = [reader EXCEPT !.pc = "done"]
            /\ dataChannel' = CloseChannel(dataChannel)
       ELSE /\ reader' = [reader EXCEPT !.pc = "blocked"]
            /\ UNCHANGED dataChannel
    /\ UNCHANGED <<cfg, fb, disk, files, stream, cuts, writes, removed, removeFailures, pc, env,
                   exitCode, blockHeader, scan, stdin, processor, sigChan, handler, signals>>

\* a chunk in flight that is a slice of readBuffer itself: the next Read
\* writes its bytes over the start of it
InFlightAfterReadShared(chunk, bytes) ==
    SliceTo(bytes, Min(Len(bytes), Len(chunk)))
        \o SliceFrom(chunk, Min(Len(bytes), Len(chunk)))

\* a chunk in flight after a later Read has put bytes into readBuffer:
\* dataToSend is a slice of its own (make, copy), which the Read leaves alone
InFlightAfterRead(chunk, bytes) == chunk

\* reader: the Read returns n > 0 bytes, copied to dataToSend, with or without
\* an error (an io.Reader may return both), or it returns io.EOF or an error
\* and no byte, the loop breaks and the channel is closed.  A Read that was
\* under way when the file was closed still returns what the input gives.
ReaderReturn ==
    /\ Running /\ GoroutinesStarted
    /\ reader.pc = "blocked"
    /\ \/ \E n \in 1..cfg.readBufferSize :
          \E err \in BOOLEAN :
             /\ stdin.pos + n <= MaxInput
             /\ reader' = [pc |-> "send", dataToSend |-> PlainChunk(stdin.pos, n),
                           err |-> err]
             /\ stdin' = [stdin EXCEPT !.pos = @ + n]
             /\ dataChannel' =
                   [dataChannel EXCEPT !.buf =
                       [i \in 1..Len(@) |->
                           InFlightAfterRead(@[i], PlainChunk(stdin.pos, n))]]
       \/ /\ reader' = [reader EXCEPT !.pc = "done"]
          /\ dataChannel' = CloseChannel(dataChannel)
          /\ UNCHANGED stdin
    /\ UNCHANGED <<cfg, fb, disk, files, stream, cuts, writes, removed, removeFailures, pc, env,
                   exitCode, blockHeader, scan, processor, sigChan, handler, signals>>

\* a channel that takes a chunk whatever it holds
CanSendAlways(ch) == TRUE

\* dataChannel <- dataToSend goes through when the buffer has a free slot
CanSend(ch) == Len(ch.buf) < ChannelCapacity

\* reader: dataChannel <- dataToSend; after a Read that returned an error with
\* its bytes the loop breaks and the channel is closed
ReaderSend ==
    /\ Running /\ GoroutinesStarted
    /\ reader.pc = "send"
    /\ CanSend(dataChannel)
    /\ IF reader.err
       THEN /\ dataChannel' = CloseChannel([dataChannel EXCEPT
                                               !.buf = Append(@, reader.dataToSend)])
            /\ reader' = [reader EXCEPT !.pc = "done", !.dataToSend = <<>>]
       ELSE /\ dataChannel' = [dataChannel EXCEPT !.buf = Append(@, reader.dataToSend)]
            /\ reader' = [reader EXCEPT !.pc = "read", !.dataToSend = <<>>]
    /\ UNCHANGED <<cfg, fb, disk, files, stream, cuts, writes, removed, removeFailures, pc, env,
                   exitCode, blockHeader, scan, stdin, processor, sigChan, handler, signals>>

\* a chunk that takes all the buffer holds
ChunkOfAll(processingBuffer) == processingBuffer

\* chunk := processingBuffer[:fb.readBufferSize]
ChunkOf(processingBuffer) == SliceTo(processingBuffer, cfg.readBufferSize)

\* a loop that leaves a buffer of exactly one chunk alone
HoldsChunkStrict(processingBuffer) == Len(processingBuffer) > cfg.readBufferSize

\* for len(processingBuffer) >= fb.readBufferSize
HoldsChunk(processingBuffer) == Len(processingBuffer) >= cfg.readBufferSize

\* the inner loop of processor: while the buffer holds a chunk, cut it off and
\* write it; the world it leaves, the bytes written and the bytes kept
RECURSIVE WriteChunks(_, _, _, _, _, _)
WriteChunks(w, processingBuffer, written, removeFails, grow, io) ==
    IF HoldsChunk(processingBuffer) /\ w.exitCode = NotExited
    THEN LET chunk == ChunkOf(processingBuffer)
         IN  WriteChunks(write(w, chunk, removeFails, grow, Len(stream) + Len(written), io),
                         SliceFrom(processingBuffer, Len(chunk)),
                         written \o chunk, removeFails, grow, io)
    ELSE [world |-> w, written |-> written, processingBuffer |-> processingBuffer]

\* processor: one turn of for receivedData := range dataChannel
ProcessorReceive ==
    /\ Running /\ GoroutinesStarted
    /\ processor.pc = "range"
    /\ Len(dataChannel.buf) > 0
    /\ \E removeFails \in RemoveOutcomes :
       \E grow \in Growths :
       \E io \in IOOutcomes :
       \E r \in {WriteChunks(World, processor.processingBuffer \o Head(dataChannel.buf),
                               <<>>, removeFails, grow, io)} :
          /\ Apply(r.world)
          /\ stream' = stream \o r.written
          /\ processor' = [processor EXCEPT !.processingBuffer = r.processingBuffer]
    /\ dataChannel' = [dataChannel EXCEPT !.buf = Tail(@)]
    /\ UNCHANGED <<cfg, pc, env, blockHeader, scan, stdin, reader, sigChan, handler, signals>>

\* a range that ends as soon as the channel is closed
RangeEndsEarly(ch) == ch.closed

\* the range over dataChannel ends when the channel is closed and empty
RangeEnds(ch) == ch.closed /\ ch.buf = <<>>

\* processor: the range has ended; what is left in the buffer is written and
\* wg.Done() runs
ProcessorFinal ==
    /\ Running /\ GoroutinesStarted
    /\ processor.pc = "range"
    /\ RangeEnds(dataChannel)
    /\ IF Len(processor.processingBuffer) > 0
       THEN \E removeFails \in RemoveOutcomes :
            \E grow \in Growths :
            \E io \in IOOutcomes :
            \E w \in {write(World, processor.processingBuffer, removeFails, grow,
                            Len(stream), io)} :
               /\ Apply(w)
               /\ stream' = stream \o processor.processingBuffer
       ELSE UNCHANGED <<fb, disk, files, cuts, writes, removed, removeFailures, stream, exitCode>>
    /\ processor' = [pc |-> "done", processingBuffer |-> <<>>]
    /\ UNCHANGED <<cfg, pc, env, blockHeader, scan, stdin, dataChannel, reader, sigChan,
                   handler, signals>>

\* a Wait that returns without the processor
WaitReturnsAtOnce == TRUE

\* wg.Wait() returns once the processor has called wg.Done()
WaitReturns == processor.pc = "done"

\* main: wg.Wait()
MainWait ==
    /\ Running /\ pc = "running"
    /\ WaitReturns
    /\ pc' = "drained"
    /\ UNCHANGED <<cfg, fb, disk, files, stream, cuts, writes, removed, removeFailures, env,
                   exitCode, blockHeader, scan, pipeVars>>

MainStep == Resume \/ OpenFirst \/ MainWait \/ Shutdown

ReaderStep == ReaderCall \/ ReaderReturn \/ ReaderSend

ProcessorStep == ProcessorReceive \/ ProcessorFinal

HandlerStep == HandleFirst \/ HandleSecond

NextPipeline == MainStep \/ ReaderStep \/ ProcessorStep \/ HandlerStep \/ Signal

\* every goroutine that can run does run in the end, and a Read under way
\* returns; nothing is asked of the signals
SpecPipeline ==
    /\ InitPipeline /\ [][NextPipeline]_vars
    /\ WF_vars(MainStep) /\ WF_vars(ReaderStep)
    /\ WF_vars(ProcessorStep) /\ WF_vars(HandlerStep)

\* os.Create and the Write of the replayed header may fail, with or without a
\* block header format; nothing on disk, no resume
InitCreate ==
    /\ InitWith("create")
    /\ disk = {} /\ cfg.maxNumFiles = MaxNumFiles /\ ~cfg.resumeExisting

SpecCreate == InitCreate /\ [][NextPipeline]_vars

----------------------------------------------------------------------------
(* The revision of the engine that holds bytes back while it looks for the  *)
(* end of a block: the FileBuffer with a pendingData field, its run, write, *)
(* flushPendingData and forceRotation, and the validateBlockHeader that     *)
(* returns the block length.  Its fields are 16, 32 or 64 bits wide and    *)
(* little-endian; it reads stdin and writes in one loop, without goroutines. *)

\* a validator that never stores a length
StoredLengthNone(format, field, i, value, blockLength) == blockLength

\* blockLength after field i (from 0) of validateBlockHeader: the value of a
\* field typed length, and once more that of the field at LengthIndex
StoredLength(format, field, i, value, blockLength) ==
    IF field.Type = FieldLength \/ (i = format.LengthIndex /\ format.HasLength)
    THEN IntOf(value)
    ELSE blockLength

\* the loop over the fields of the validateBlockHeader that returns (int, bool),
\* from field i (from 1) at byte offset; the tests on the value of a field are
\* those of FieldValid
RECURSIVE BlockLengthFields(_, _, _, _, _, _, _)
BlockLengthFields(data, format, i, offset, blockLength, maxBlockSize, now) ==
    IF i > Len(format.Fields) THEN [blockLength |-> blockLength, valid |-> TRUE]
    ELSE LET field == format.Fields[i]
             n == field.Width \div 8
         IN  IF offset + n > Len(data)
             THEN [blockLength |-> 0, valid |-> FALSE]
             ELSE LET value == DecodeUint(data, offset, n, LittleEndian)
                  IN  IF ~FieldValid(field, value, maxBlockSize, now)
                      THEN [blockLength |-> 0, valid |-> FALSE]
                      ELSE BlockLengthFields(data, format, i + 1, offset + n,
                               StoredLength(format, field, i - 1, value, blockLength),
                               maxBlockSize, now)

\* validateBlockHeader(data) (int, bool)
validateBlockLength(data, format, maxBlockSize, now) ==
    IF Len(data) < format.TotalBytes THEN [blockLength |-> 0, valid |-> FALSE]
    ELSE BlockLengthFields(data, format, 1, 0, 0, maxBlockSize, now)

\* the search loop of flushPendingData: the first offset at which a header
\* validates, -1 when there is none
RECURSIVE FirstValidOffset(_, _, _)
FirstValidOffset(pendingData, format, offset) ==
    IF offset > Len(pendingData) - format.TotalBytes THEN -1
    ELSE IF validateBlockLength(SliceFrom(pendingData, offset), format,
                                cfg.maxBlockSize, cfg.now).valid
         THEN offset
         ELSE FirstValidOffset(pendingData, format, offset + 1)

\* openNewFile of this revision: the eviction, the file and its compressor; the
\* header is replayed by write
openPendingFile(w) ==
    LET w1 == EvictOldest(w, FALSE)
        filename == generateFilename(w1)
    IN  [w1 EXCEPT !.disk = @ \cup {filename},
                   !.files = Append(@, [name |-> filename, data |-> <<>>, hdr |-> 0,
                                        size |-> 0, closes |-> <<>>]),
                   !.fb.currentFile = filename,
                   !.fb.gzipWriter = filename,
                   !.fb.fileCounter = @ + 1,
                   !.fb.activeFiles = Append(@, filename)]

\* closeCurrentFile of this revision: nothing when gzipWriter is nil
closePendingFile(w) ==
    IF w.fb.gzipWriter = NoFile THEN w
    ELSE [w EXCEPT !.files[Len(w.files)].closes = @ \o <<"gzip", "file">>,
                   !.fb.gzipWriter = NoFile,
                   !.fb.currentFile = NoFile]

\* forceRotation: what is held goes to the current file, which is closed
forceRotation(w, grow, base) ==
    closePendingFile(
        [GzipWrite(w, w.fb.pendingData, grow) EXCEPT
            !.fb.pendingData = <<>>,
            !.cuts = Append(@, [at |-> base + Len(w.fb.pendingData), forced |-> TRUE,
                                offset |-> Len(w.fb.pendingData),
                                window |-> w.fb.pendingData])])

\* a scan that is never given up
ScanExceededNever(pendingData, maxScanSize) == FALSE

\* len(fb.pendingData) > maxScanSize
ScanExceeded(pendingData, maxScanSize) == Len(pendingData) > maxScanSize

\* a block that ends with its header
EndOfBlockHeader(offset, format, blockLen) == offset + format.TotalBytes

\* endOfBlock := offset + fb.blockFormat.TotalBytes + blockLen
EndOfBlock(offset, format, blockLen) == offset + format.TotalBytes + blockLen

\* a write that opens the file only: the first bytes of the file are replayed
\* when fileCounter > 1 and a header is held
OpenIfClosed(w, grow) ==
    IF w.fb.currentFile = NoFile \/ w.fb.gzipWriter = NoFile
    THEN LET w1 == openPendingFile(w)
         IN  IF w1.fb.fileCounter > 1 /\ Len(w1.fb.header) > 0
             THEN [GzipWrite(w1, w1.fb.header, grow) EXCEPT
                      !.files[Len(w1.files)].hdr = Len(w1.fb.header)]
             ELSE w1
    ELSE w

\* write and flushPendingData call each other; base is the stream offset of the
\* first byte of data, or of pendingData.  After closeCurrentFile in the branch
\* without a format, gzipWriter is nil at the Write that follows: the process
\* panics.
RECURSIVE flushPendingData(_, _, _)
RECURSIVE writePending(_, _, _, _)
flushPendingData(w, grow, base) ==
    LET pendingData == w.fb.pendingData
        format == cfg.blockFormat
        maxScanSize == cfg.maxBlockSize + format.TotalBytes
        offset == FirstValidOffset(pendingData, format, 0)
    IN  IF offset >= 0
        THEN LET blockLen == validateBlockLength(SliceFrom(pendingData, offset), format,
                                                 cfg.maxBlockSize, cfg.now).blockLength
                 endOfBlock == EndOfBlock(offset, format, blockLen)
             IN  IF endOfBlock > Len(pendingData)
                 THEN IF ScanExceeded(pendingData, maxScanSize)
                      THEN forceRotation(w, grow, base)
                      ELSE w
                 ELSE LET w1 == GzipWrite(w, SliceTo(pendingData, endOfBlock), grow)
                          w2 == closePendingFile(w1)
                          remaining == SliceFrom(pendingData, endOfBlock)
                          w3 == [w2 EXCEPT
                                    !.fb.pendingData = <<>>,
                                    !.cuts = Append(@, [at |-> base + endOfBlock,
                                                        forced |-> FALSE,
                                                        offset |-> offset,
                                                        window |-> pendingData])]
                      IN  IF Len(remaining) > 0
                          THEN writePending(w3, remaining, grow, base + endOfBlock)
                          ELSE w3
        ELSE IF ScanExceeded(pendingData, maxScanSize)
             THEN forceRotation(w, grow, base)
             ELSE w

writePending(w, data, grow, base) ==
    LET w0 == CaptureHeader(w, data)
    IN  IF Len(w0.fb.pendingData) > 0
        THEN flushPendingData([w0 EXCEPT !.fb.pendingData = @ \o data], grow,
                              base - Len(w0.fb.pendingData))
        ELSE LET w1 == OpenIfClosed(w0, grow)
             IN  IF MustRotate(w1)
                 THEN IF cfg.blockFormat # NilFormat
                      THEN flushPendingData([w1 EXCEPT !.fb.pendingData = @ \o data],
                                            grow, base)
                      ELSE [closePendingFile(w1) EXCEPT !.exitCode = PanicExit]
                 ELSE GzipWrite(w1, data, grow)

\* the bytes of the input: 01 01 is the magic number, 00 00 and 01 00 are lengths
\* within max_block_size, 00 01 and 01 01 are lengths beyond it
PendingBytes == {0, 1}

\* <u16:length>, <u16:0x0101><u16:length>, <u16:length><u16:length> and
\* <u16:0x0101>
PendingFormats ==
    { FormatWith(<<Field(16, FieldLength, Uint64(0))>>, LittleEndian),
      FormatWith(<<Field(16, FieldMagic, Uint64(257)), Field(16, FieldLength, Uint64(0))>>,
                 LittleEndian),
      FormatWith(<<Field(16, FieldLength, Uint64(0)), Field(16, FieldLength, Uint64(0))>>,
                 LittleEndian),
      FormatWith(<<Field(16, FieldMagic, Uint64(257))>>, LittleEndian) }

PendingConfigs ==
    [ maxNumFiles : {MaxNumFiles},
      headerBytes : {0, 1},
      blockFormat : PendingFormats \cup {NilFormat},
      maxBlockSize : {MaxBlockSize},
      readBufferSize : {ReadBufferSize},
      maxFileSize : {MaxFileSize},
      resumeExisting : {FALSE},
      now : {0} ]

\* main of this revision when it calls fb.run()
InitPending ==
    /\ cfg \in PendingConfigs /\ disk = {} /\ blockHeader = <<>>
    /\ fb = [header |-> <<>>, headerCaptured |-> FALSE, pendingData |-> <<>>,
             currentFile |-> NoFile, gzipWriter |-> NoFile, fileCounter |-> 0,
             activeFiles |-> <<>>]
    /\ files = <<>>
    /\ stream = <<>>
    /\ cuts = <<>>
    /\ writes = <<>>
    /\ scan = NoScan
    /\ removed = {}
    /\ removeFailures = 0
    /\ pc = "run"
    /\ env = "ok"
    /\ exitCode = NotExited
    /\ PipelineInit

\* run: os.Stdin.Read gave n > 0 bytes, which are written
RunRead ==
    /\ pc = "run" /\ Running
    /\ \E n \in 1..cfg.readBufferSize :
       \E grow \in Growths :
          /\ Len(stream) + n <= MaxInput
          /\ \E data \in [1..n -> PendingBytes] :
                /\ Apply(writePending(World, data, grow, Len(stream)))
                /\ stream' = stream \o data
    /\ UNCHANGED <<cfg, pc, env, blockHeader, scan, pipeVars>>

\* run: io.EOF ends the loop, the deferred closeCurrentFile runs and main returns
RunEOF ==
    /\ pc = "run" /\ Running
    /\ Apply([closePendingFile(World) EXCEPT !.exitCode = 0])
    /\ pc' = "closed"
    /\ UNCHANGED <<cfg, stream, env, blockHeader, scan, pipeVars>>

NextPending == RunRead \/ RunEOF

SpecPending == InitPending /\ [][NextPending]_vars

----------------------------------------------------------------------------
(* File names as strings: generateFilename and the pattern of               *)
(* loadExistingFiles.  A string is the sequence of its characters; the file  *)
(* openNewFile creates is looked for by a later run with the same            *)
(* --file_prefix in the directory of the prefix.                            *)

\* filepath.Ext(path): from the last dot of the last element of the path on
RECURSIVE ExtFrom(_, _)
ExtFrom(path, i) ==
    IF i = 0 \/ path[i] = "/" THEN <<>>
    ELSE IF path[i] = "." THEN SubSeq(path, i, Len(path))
    ELSE ExtFrom(path, i - 1)

Ext(path) == ExtFrom(path, Len(path))

\* strings.TrimSuffix(s, suffix)
TrimSuffix(s, suffix) ==
    IF Len(suffix) <= Len(s) /\ SubSeq(s, Len(s) - Len(suffix) + 1, Len(s)) = suffix
    THEN SubSeq(s, 1, Len(s) - Len(suffix))
    ELSE s

\* the index of the last "/" of a path, 0 when it has none
RECURSIVE LastSlash(_, _)
LastSlash(path, i) ==
    IF i = 0 \/ path[i] = "/" THEN i ELSE LastSlash(path, i - 1)

\* filepath.Dir(path) and the name of the entry of path in that directory
Dir(path) ==
    IF LastSlash(path, Len(path)) = 0 THEN <<".">>
    ELSE SubSeq(path, 1, LastSlash(path, Len(path)) - 1)

Base(path) == SubSeq(path, LastSlash(path, Len(path)) + 1, Len(path))

\* the decimal digits of a number, most significant first
RECURSIVE Decimal(_)
Decimal(n) ==
    IF n < 10 THEN <<HexDigits[n + 1]>>
    ELSE Decimal(n \div 10) \o <<HexDigits[(n % 10) + 1]>>

\* fmt.Sprintf("%06d", n): zeros in front up to six digits, every digit of a
\* number that has more
Sprintf06(n) ==
    [i \in 1..(6 - Len(Decimal(n))) |-> "0"] \o Decimal(n)

\* generateFilename: name_NNNNNN_timestamp[.ext].gz out of the prefix
FilenameOf(prefix, counter, timestamp) ==
    LET ext == Ext(prefix)
        nameWithoutExt == TrimSuffix(prefix, ext)
    IN  IF ext # <<>>
        THEN nameWithoutExt \o <<"_">> \o Sprintf06(counter) \o <<"_">> \o timestamp
                 \o ext \o <<".", "g", "z">>
        ELSE prefix \o <<"_">> \o Sprintf06(counter) \o <<"_">> \o timestamp
                 \o <<".", "g", "z">>

\* escapedName of loadExistingFiles: the prefix without its extension, directory
\* included, taken literally
PatternName(prefix) == TrimSuffix(prefix, Ext(prefix))

IsDigit(c) == \E d \in 1..10 : HexDigits[d] = c

\* re.MatchString(filename) for ^name_(\d{6})_.*ext\.gz$
MatchString(prefix, filename) ==
    LET head == PatternName(prefix) \o <<"_">>
        tail == Ext(prefix) \o <<".", "g", "z">>
        n == Len(head)
    IN  /\ Len(filename) >= n + 7 + Len(tail)
        /\ SubSeq(filename, 1, n) = head
        /\ \A i \in (n + 1)..(n + 6) : IsDigit(filename[i])
        /\ filename[n + 7] = "_"
        /\ SubSeq(filename, Len(filename) - Len(tail) + 1, Len(filename)) = tail

\* strconv.Atoi(matches[1]): the number of the six digits after name_
CounterOf(prefix, filename) ==
    LET n == Len(PatternName(prefix)) + 1
        RECURSIVE Value(_)
        Value(k) == IF k = 0 THEN 0
                    ELSE 10 * Value(k - 1) + HexDigitValue(filename[n + k])
    IN  Value(6)

\* --file_prefix: plain, with an extension, in a directory, and both
FilePrefixes ==
    { <<"a">>, <<"a", ".", "x">>, <<"d", "/", "a">>, <<"d", "/", "a", ".", "x">>,
      <<"d", ".", "x", "/", "a">>, <<".", "/", "a">> }

\* the counters of the files: the first, the last of six digits and the first
\* of seven, which a million files or a resume from 999999 lead to
NameCounters == {0, 1, 42, 999999, 1000000}

\* timestamps as --time_format renders them
Timestamps == { <<"2", "Z">>, <<"1", ".", "5">>, <<"1", "_", "0", "0", "0", "0", "0", "1", "_">> }

InitNames ==
    /\ \E prefix \in FilePrefixes : \E counter \in NameCounters :
       \E timestamp \in Timestamps :
          scan = [pc |-> "prefix", prefix |-> prefix, counter |-> counter,
                  timestamp |-> timestamp, filename |-> <<>>, matched |-> FALSE,
                  parsed |-> -1]
    /\ cfg \in ArgsConfigs /\ disk = {} /\ blockHeader = <<>>
    /\ fb = NewFileBuffer
    /\ files = <<>>
    /\ stream = <<>>
    /\ cuts = <<>>
    /\ writes = <<>>
    /\ removed = {}
    /\ removeFailures = 0
    /\ pc = "names"
    /\ env = "ok"
    /\ exitCode = NotExited
    /\ PipelineInit

\* openNewFile: filename := fb.generateFilename(); os.Create(filename)
CreateNamed ==
    /\ pc = "names" /\ scan.pc = "prefix"
    /\ scan' = [scan EXCEPT !.pc = "created",
                            !.filename = FilenameOf(scan.prefix, scan.counter,
                                                    scan.timestamp)]
    /\ UNCHANGED <<cfg, fb, disk, files, stream, cuts, writes, removed, removeFailures, pc,
                   env, exitCode, blockHeader, pipeVars>>

\* loadExistingFiles of a later run: the entries of filepath.Dir(prefix) are
\* matched by name, and the counter of a match is parsed
LoadNamed ==
    /\ pc = "names" /\ scan.pc = "created"
    /\ LET filename == Base(scan.filename)
           found == /\ Dir(scan.filename) = Dir(scan.prefix)
                    /\ MatchString(scan.prefix, filename)
       IN  scan' = [scan EXCEPT !.pc = "loaded",
                                !.matched = found,
                                !.parsed = IF found THEN CounterOf(scan.prefix, filename)
                                           ELSE -1]
    /\ UNCHANGED <<cfg, fb, disk, files, stream, cuts, writes, removed, removeFailures, pc,
                   env, exitCode, blockHeader, pipeVars>>

NextNames == CreateNamed \/ LoadNamed

SpecNames == InitNames /\ [][NextNames]_vars

----------------------------------------------------------------------------
(* What the claims speak of. *)

\* the files of this run in counter order (creation order among equal counters)
CounterOrder ==
    LET n == Len(files)
    IN  CHOOSE p \in [1..n -> 1..n] :
          /\ \A i \in 1..n : \E j \in 1..n : p[j] = i
          /\ \A i \in 1..n : \A j \in 1..n :
                i < j => \/ files[p[i]].name.counter < files[p[j]].name.counter
                         \/ /\ files[p[i]].name.counter = files[p[j]].name.counter
                            /\ p[i] < p[j]

\* the stream bytes of the k-th file in counter order: every file after the first
\* is stripped of the headerBytes replayed bytes
PayloadOf(k) ==
    LET f == files[CounterOrder[k]]
    IN  IF k = 1 THEN f.data ELSE SliceFrom(f.data, cfg.headerBytes)

RECURSIVE ConcatPayload(_)
ConcatPayload(k) == IF k = 0 THEN <<>> ELSE ConcatPayload(k - 1) \o PayloadOf(k)

\* the files on disk that the engine produced: those of this run, and under
\* resume those of the earlier runs that resume found
ProducedOnDisk ==
    { f \in disk : f.ts = RunStamp \/ (cfg.resumeExisting /\ pc # "start") }

\* the files that were on disk at startup
FoundAtStartup == { f \in disk \cup removed : f.ts # RunStamp }

HasFormat == cfg.blockFormat # NilFormat

\* the scanner found a header in the chunk of this cut
FoundHeader(cut) == cut.offset < Len(cut.window)

\* the rotation of this cut was forced: no header validated anywhere in the chunk
Forced(cut) == cut.offset = Len(cut.window)

\* a header validates at the offset of the cut, on the bytes the scanner had
ValidAtCut(cut) ==
    validateBlockHeader(SliceFrom(cut.window, cut.offset), cfg.blockFormat,
                        cfg.maxBlockSize, cfg.now)

\* the payload length a header declares: the value of its length field
DeclaredLength(data, format) ==
    LET RECURSIVE At(_, _)
        At(i, offset) ==
            IF i = format.LengthIndex + 1
            THEN IntOf(DecodeUint(data, offset, format.Fields[i].Width \div 8,
                                  format.Endianness))
            ELSE At(i + 1, offset + format.Fields[i].Width \div 8)
    IN  IF format.HasLength THEN At(1, 0) ELSE 0

\* the stream offset at which the block of the header validated at this cut ends
BlockEnd(cut) ==
    cut.at + cfg.blockFormat.TotalBytes
           + DeclaredLength(SliceFrom(cut.window, cut.offset), cfg.blockFormat)

\* the stream offset up to which the scanner had bytes when it made this cut
BufferEnd(cut) == cut.at - cut.offset + Len(cut.window)

\* the number of stream bytes in the first i files created
RECURSIVE StreamBytesUpTo(_)
StreamBytesUpTo(i) ==
    IF i = 0 THEN 0 ELSE StreamBytesUpTo(i - 1) + (Len(files[i].data) - files[i].hdr)

----------------------------------------------------------------------------
(* The claims. *)

\* C1: without a block header format, the payload of all files produced, taken
\* in counter order with the replayed header stripped from every file after the
\* first, is the input: no byte lost, duplicated or reordered.
C1_RoundTrip == ~HasFormat => ConcatPayload(Len(files)) = stream

C1_Witness ==
    /\ ~HasFormat /\ pc = "closed" /\ cfg.headerBytes > 0
    /\ Len(files) >= 3 /\ Len(stream) = MaxInput

\* C2: once startup has settled (resume and the first openNewFile are done),
\* activeFiles never holds more than maxNumFiles entries, also when removals fail.
C2_Retention ==
    pc \in {"running", "drained", "closed"} => Len(fb.activeFiles) <= cfg.maxNumFiles

C2_Witness ==
    /\ pc = "drained" /\ cfg.resumeExisting /\ removed # {} /\ Len(cuts) >= 2
    /\ Len(fb.activeFiles) = cfg.maxNumFiles

\* C3 as stated: at no point do more than maxNumFiles engine-produced files
\* exist on disk.
C3_AtMostMaxOnDisk == Cardinality(ProducedOnDisk) <= cfg.maxNumFiles

\* C3 amended: the oldest file is removed in the openNewFile that creates the
\* next one, so the engine-produced files on disk exceed maxNumFiles by at most
\* the number of removals that failed.
C3_AtMostMaxPlusFailures ==
    Cardinality(ProducedOnDisk) <= cfg.maxNumFiles + removeFailures

C3_Witness ==
    /\ removeFailures = 0 /\ Len(files) > cfg.maxNumFiles
    /\ Cardinality(ProducedOnDisk) = cfg.maxNumFiles /\ removed # {}

\* C4: with headerBytes = N > 0, every file created after the first begins with
\* the first N bytes of the input, written when the file is opened.
C4_HeaderReplay ==
    cfg.headerBytes > 0 =>
        \A i \in 2..Len(files) :
            /\ Len(stream) >= cfg.headerBytes
            /\ files[i].hdr = cfg.headerBytes
            /\ Len(files[i].data) >= cfg.headerBytes
            /\ SliceTo(files[i].data, cfg.headerBytes) = SliceTo(stream, cfg.headerBytes)

C4_Witness ==
    /\ cfg.headerBytes > 0 /\ Len(files) >= 3 /\ pc = "closed"
    /\ Len(files[3].data) > cfg.headerBytes

C6_ForcedOnlyAfterBound ==
    HasFormat =>
        \A i \in 1..Len(cuts) :
            Forced(cuts[i]) =>
                Len(cuts[i].window) >= cfg.maxBlockSize + cfg.blockFormat.TotalBytes

\* C7: with a block header format, the payload of the files in counter order is
\* the bytes handed to write, each once and in order.
C7_OrderWithFormat == HasFormat => ConcatPayload(Len(files)) = stream

C7_Witness ==
    /\ HasFormat /\ pc = "closed" /\ Len(stream) = MaxInput
    /\ \E i \in 1..Len(cuts) : cuts[i].offset > 0 /\ FoundHeader(cuts[i])

\* C8 as stated: every file created by a rotation starts at a stream offset the
\* scanner validated as a header, unless the rotation is the forced one made
\* after maxBlockSize + totalByteWidth bytes were buffered.
C8_CutValidatedOrBoundedForced ==
    HasFormat =>
        \A i \in 1..Len(cuts) :
            \/ FoundHeader(cuts[i]) /\ ValidAtCut(cuts[i])
            \/ /\ Forced(cuts[i])
               /\ Len(cuts[i].window) >= cfg.maxBlockSize + cfg.blockFormat.TotalBytes

\* C9: resume over N files of distinct counters with maxNumFiles = M < N removes
\* the N - M files of smallest counter, tracks the others in ascending counter
\* order and sets fileCounter to the highest counter plus one.
C9_Resume ==
    LET found == FoundAtStartup
        distinct == \A f \in found : \A g \in found : f.counter = g.counter => f = g
        active == fb.activeFiles
    IN  (/\ pc = "loaded" /\ cfg.resumeExisting /\ distinct
         /\ Cardinality(found) > cfg.maxNumFiles)
        => /\ Cardinality(removed) = Cardinality(found) - cfg.maxNumFiles
           /\ \A r \in removed : \A k \in disk : r.counter < k.counter
           /\ { active[i] : i \in 1..Len(active) } = disk
           /\ Len(active) = cfg.maxNumFiles
           /\ \A i \in 1..(Len(active) - 1) : active[i].counter < active[i + 1].counter
           /\ \A f \in found : f.counter < fb.fileCounter
           /\ \E f \in found : fb.fileCounter = f.counter + 1

C9_Witness ==
    /\ pc = "loaded" /\ cfg.resumeExisting /\ cfg.maxNumFiles >= 2
    /\ Cardinality(removed) >= 1 /\ Len(fb.activeFiles) = cfg.maxNumFiles
    /\ \E f \in disk : f.counter # Cardinality(FoundAtStartup) - 1

AllReadIsWritten ==
    /\ stream = PlainChunk(0, stdin.pos)
    /\ ConcatPayload(Len(files)) = stream
    /\ dataChannel.buf = <<>>
    /\ reader.dataToSend = <<>>
    /\ processor.processingBuffer = <<>>

C12_ForcedExit ==
    /\ [](exitCode = 1 => handler = "exited" /\ stdin.closed /\ signals >= 2)
    /\ [][(exitCode' = 1 /\ exitCode # 1)
            => (handler = "second" /\ sigChan > 0 /\ Listening /\ exitCode = NotExited)]_vars
    /\ [][(handler = "second" /\ handler' # "second") => exitCode' = 1]_vars
    /\ []((Running /\ Listening /\ handler = "second" /\ sigChan > 0)
            => ENABLED HandleSecond)

C12_Witness ==
    /\ exitCode = 1 /\ pc = "running" /\ Len(dataChannel.buf) > 0
    /\ Len(stream) < stdin.pos

\* C13: with no signal, the process ends with exit code 0, the channel closed and
\* drained, everything read written and the current file closed; while main waits,
\* the reader, the processor or main can always take a step.
C13_Termination ==
    /\ <>(exitCode = 0 \/ signals > 0)
    /\ [](exitCode = 0 =>
            /\ reader.pc = "done" /\ processor.pc = "done" /\ dataChannel.closed
            /\ AllReadIsWritten
            /\ fb.currentFile = NoFile /\ fb.gzipWriter = NoFile)
    /\ []((Running /\ pc = "running") =>
            ENABLED (ReaderStep \/ ProcessorStep \/ MainWait))

C13_Witness ==
    /\ exitCode = 0 /\ signals = 0 /\ stdin.pos = MaxInput /\ Len(files) >= 2

\* the processor goroutine has not taken a step
ProcessorNotStarted ==
    processor = [pc |-> "range", processingBuffer |-> <<>>] /\ stream = <<>>

\* C14: the engine is touched by main alone until the first file is open, by the
\* processor alone while main waits, and by main alone again once the processor
\* has finished; the reader and the listener never touch it.
C14_SingleWriter ==
    /\ [](pc \in {"start", "loaded"} => ProcessorNotStarted)
    /\ [](pc \in {"drained", "closed"} => processor.pc = "done")
    /\ [][(fb' # fb \/ files' # files \/ disk' # disk)
            => \/ pc' # pc /\ processor' = processor
               \/ pc' = pc /\ pc = "running" /\ processor.pc = "range"
                           /\ reader' = reader /\ handler' = handler]_vars
    /\ [][(reader' # reader \/ handler' # handler \/ signals' # signals)
            => fb' = fb /\ files' = files /\ disk' = disk]_vars

C14_Witness ==
    /\ pc = "drained" /\ Len(files) >= 2 /\ processor.pc = "done"

\* C15: dataChannel never holds more than its capacity; the reader's send goes
\* through exactly when the channel is not full, and the processor's range moves
\* exactly when the channel holds a chunk or is closed.
C15_Backpressure ==
    /\ Len(dataChannel.buf) <= ChannelCapacity
    /\ (Running /\ pc = "running" /\ reader.pc = "send") =>
          (ENABLED ReaderSend <=> Len(dataChannel.buf) < ChannelCapacity)
    /\ (Running /\ pc = "running" /\ processor.pc = "range") =>
          (ENABLED ProcessorStep <=> (dataChannel.buf # <<>> \/ dataChannel.closed))

C15_Witness ==
    /\ Len(dataChannel.buf) = ChannelCapacity /\ reader.pc = "send"
    /\ processor.pc = "range"

\* C16 as stated: a Flush, a Stat or a Write that fails inside write does not end
\* the process.
C16_IOErrorsNotFatal == exitCode \in {NotExited, 0}

\* the names in activeFiles
Tracked == { fb.activeFiles[i] : i \in 1..Len(fb.activeFiles) }

\* a step in which the os.Remove of openNewFile failed
EvictionFailed == removeFailures' > removeFailures /\ pc # "start"

\* C17 as stated: when the removal of the oldest file fails in openNewFile, the
\* new file is created all the same and activeFiles is left with more than
\* maxNumFiles entries.
C17_OversizedTrackedSet ==
    [][EvictionFailed =>
          /\ Len(files') = Len(files) + 1 /\ exitCode' = NotExited
          /\ Len(fb'.activeFiles) > cfg.maxNumFiles]_vars

\* C17 amended: when the removal of the oldest file fails in openNewFile, the new
\* file is created all the same; the oldest entry leaves activeFiles, which stays
\* within maxNumFiles entries, and its file stays on disk, where no later step
\* of the run removes a file that is not tracked.
C17_FailedFileLeftUntracked ==
    /\ [][EvictionFailed =>
            /\ Len(files') = Len(files) + 1 /\ exitCode' = NotExited
            /\ files'[Len(files')].name \in disk'
            /\ Len(fb'.activeFiles) <= cfg.maxNumFiles
            /\ Head(fb.activeFiles) \in disk'
            /\ \A i \in 1..Len(fb'.activeFiles) :
                  fb'.activeFiles[i] # Head(fb.activeFiles)]_vars
    /\ [][\A f \in disk : (pc # "start" /\ f \notin Tracked) => f \in disk']_vars

C17_Witness ==
    /\ ~cfg.resumeExisting /\ removeFailures > 0 /\ pc = "closed"
    /\ \E f \in disk : f.ts = RunStamp /\ f \notin Tracked
    /\ Cardinality(ProducedOnDisk) > cfg.maxNumFiles

\* the tokens of the --block_header flag
TokensOf(format) == SelectSeq(format, LAMBDA piece : piece.match)

\* the digit strings that denote 8, 16, 32 and 64
WidthDigits == { <<8>>, <<1, 6>>, <<3, 2>>, <<6, 4>> }

TypeKeywords ==
    { <<"s", "e", "c">>, <<"u", "s", "e", "c">>, <<"n", "s", "e", "c">>,
      <<"l", "e", "n", "g", "t", "h">> }

HexChars == { HexDigits[i] : i \in 1..16 } \cup { UpperHexDigits[i] : i \in 1..16 }

IsMagicLiteral(typeStr) == Len(typeStr) >= 2 /\ SubSeq(typeStr, 1, 2) = <<"0", "x">>

\* the digits after 0x are a hexadecimal number of at most 64 bits
MagicParses(typeStr) ==
    LET hex == SubSeq(typeStr, 3, Len(typeStr))
    IN  /\ Len(hex) > 0
        /\ \A i \in 1..Len(hex) : hex[i] \in HexChars
        /\ \A i \in 1..(Len(hex) - 16) : \E j \in 1..i : hex[j] # "0"
        /\ Len(hex) > 16 => \A j \in 1..(Len(hex) - 16) : hex[j] = "0"

\* the four failures of the parser, as the claims list them
ZeroTokens(format) == Len(TokensOf(format)) = 0

BadWidth(token) == StripZeros(token.digits) \notin WidthDigits

UnknownType(token) ==
    /\ token.typeStr # <<>>
    /\ token.typeStr \notin TypeKeywords
    /\ ~IsMagicLiteral(token.typeStr)

BadMagic(token) == IsMagicLiteral(token.typeStr) /\ ~MagicParses(token.typeStr)

ConfigError(format) ==
    \/ ZeroTokens(format)
    \/ \E i \in 1..Len(TokensOf(format)) :
          LET token == TokensOf(format)[i]
          IN  BadWidth(token) \/ UnknownType(token) \/ BadMagic(token)

\* C18: a --block_header that has no token, a bad width, a bad magic literal or
\* an unknown type ends the process with exit code 1 inside processArgs: no file
\* is created, resume removes nothing, nothing is read or written.
C18_ConfigErrorsFatal ==
    (pc # "args" /\ ConfigError(blockHeader)) =>
        /\ exitCode = 1 /\ pc = "exited"
        /\ fb = NewFileBuffer
        /\ files = <<>> /\ stream = <<>> /\ stdin.pos = 0
        /\ removed = {} /\ disk = ArgsDisk

C18_Witness ==
    /\ pc = "exited" /\ exitCode = 1 /\ Len(blockHeader) = 2
    /\ blockHeader[1] \in GoodTokens /\ blockHeader[2] \in BadTokens
    /\ cfg.resumeExisting /\ Cardinality(disk) > cfg.maxNumFiles

\* the width in bits a valid width string denotes
WidthBits(digits) ==
    CHOOSE width \in {8, 16, 32, 64} :
        StripZeros(digits) = (IF width < 10 THEN <<width>>
                              ELSE <<width \div 10, width % 10>>)

RECURSIVE SumBytes(_, _)
SumBytes(tokens, i) ==
    IF i = 0 THEN 0 ELSE SumBytes(tokens, i - 1) + WidthBits(tokens[i].digits) \div 8

\* the field type a valid type string denotes
TypeOf(typeStr) ==
    CASE typeStr = <<>> -> FieldIgnore
      [] typeStr = <<"s", "e", "c">> -> FieldSec
      [] typeStr = <<"u", "s", "e", "c">> -> FieldUsec
      [] typeStr = <<"n", "s", "e", "c">> -> FieldNsec
      [] typeStr = <<"l", "e", "n", "g", "t", "h">> -> FieldLength
      [] OTHER -> FieldMagic

\* C20: the parser fails exactly when the string has no token, or a token has a
\* width other than 8, 16, 32, 64, an unknown type or a magic literal that is
\* not hexadecimal; otherwise the format has one field a token, in the order of
\* the tokens, and TotalBytes is the sum of their widths in bytes.
C20_DescriptorParsing ==
    pc # "args" =>
        LET tokens == TokensOf(blockHeader)
            format == cfg.blockFormat
        IN  /\ (exitCode = 1 /\ pc = "exited") <=> ConfigError(blockHeader)
            /\ ~ConfigError(blockHeader) =>
                  /\ Len(format.Fields) = Len(tokens)
                  /\ \A i \in 1..Len(tokens) :
                        /\ format.Fields[i].Width = WidthBits(tokens[i].digits)
                        /\ format.Fields[i].Type = TypeOf(tokens[i].typeStr)
                        /\ format.Fields[i].Signed = (tokens[i].signedness = "s")
                  /\ format.TotalBytes = SumBytes(tokens, Len(tokens))

C20_Witness ==
    /\ pc = "closed" /\ Len(blockHeader) = 2 /\ Junk \notin {blockHeader[1], blockHeader[2]}
    /\ Len(cfg.blockFormat.Fields) = 2 /\ cfg.blockFormat.TotalBytes = 3
    /\ cfg.blockFormat.Fields[1].Type = FieldIgnore
    /\ Len(files) >= 2

\* the scenario has run to its end
ScenarioDone ==
    /\ pc = "closed" /\ Len(stream) = ScenarioInput
    /\ cfg.maxNumFiles = ScenarioNumFiles /\ ~HasFormat /\ env = "incompressible"

ChunksPerFile ==
    (cfg.maxFileSize + cfg.readBufferSize - 1) \div cfg.readBufferSize

NumberByte(window, offset, n, endianness, k) ==
    IF k >= n THEN 0
    ELSE IF endianness = LittleEndian THEN window[offset + 1 + k]
    ELSE window[offset + n - k]

\* the low 31 bits of the number a field holds
Low31(window, offset, n, endianness) ==
    (NumberByte(window, offset, n, endianness, 3) % 128) * 16777216
    + NumberByte(window, offset, n, endianness, 2) * 65536
    + NumberByte(window, offset, n, endianness, 1) * 256
    + NumberByte(window, offset, n, endianness, 0)

\* the number a field holds is below 2^31
Below31(window, offset, n, endianness) ==
    /\ \A k \in 4..7 : NumberByte(window, offset, n, endianness, k) = 0
    /\ NumberByte(window, offset, n, endianness, 3) < 128

\* the number a field holds, an unsigned number of up to 64 bits, is at most c
AtMost(window, offset, n, endianness, c) ==
    Below31(window, offset, n, endianness) /\ Low31(window, offset, n, endianness) <= c

\* |value - now| <= 48h for the unsigned number a field holds and a clock from 0
\* to 2^31 - 1, as numbers: a value of 2^32 or more is further than that from
\* every such clock
Within48h(window, offset, n, endianness, now) ==
    LET low == Low31(window, offset, n, endianness)
        limit == 172800
    IN  /\ \A k \in 4..7 : NumberByte(window, offset, n, endianness, k) = 0
        /\ IF NumberByte(window, offset, n, endianness, 3) < 128
           THEN low - now <= limit /\ now - low <= limit
           ELSE /\ low <= limit /\ 2147483647 - now <= limit
                /\ low + (2147483647 - now) + 1 <= limit

\* C21 as stated: a sec field of any width is accepted exactly when the number
\* it holds, read as unsigned, is within 48 hours (172800 s, ends included) of
\* the clock, 64-bit numbers from 2^63 on included; and a pcap record header
\* whose sec is further than that from the clock is rejected.
C21_SecondsWithin48h ==
    (scan.pc = "validated" /\ Len(scan.window) >= scan.format.TotalBytes) =>
        /\ scan.format \in SecFormats =>
              (scan.valid <=> Within48h(scan.window, 0, scan.format.TotalBytes,
                                        scan.format.Endianness, scan.now))
        /\ (scan.format = PcapFormat
               /\ ~Within48h(scan.window, 0, 4, scan.format.Endianness, scan.now)) =>
              ~scan.valid

\* the offset in the window at which field i of a format starts
RECURSIVE OffsetOf(_, _)
OffsetOf(format, i) ==
    IF i = 1 THEN 0 ELSE OffsetOf(format, i - 1) + format.Fields[i - 1].Width \div 8

\* the rule of a field's type on the number the field holds
FieldRule(window, offset, field, endianness, maxBlockSize, now) ==
    LET n == field.Width \div 8
    IN  CASE field.Type = FieldSec -> Within48h(window, offset, n, endianness, now)
          [] field.Type = FieldUsec -> AtMost(window, offset, n, endianness, 999999)
          [] field.Type = FieldNsec -> AtMost(window, offset, n, endianness, 999999999)
          [] field.Type = FieldLength -> AtMost(window, offset, n, endianness, maxBlockSize)
          [] field.Type = FieldMagic ->
                \A k \in 0..7 :
                    NumberByte(window, offset, n, endianness, k) = field.MagicValue[8 - k]
          [] OTHER -> TRUE

\* C22: validateBlockHeader returns true exactly when the window holds at least
\* TotalBytes bytes and every field, taken at the offset the widths of the
\* fields before it add up to and read in the byte order of the format, keeps
\* the rule of its type: usec at most 999999, nsec at most 999999999, length at
\* most maxBlockSize, magic equal to the constant, anything for a plain field.
C22_FieldValidation ==
    (scan.pc = "validated" /\ scan.format \notin SecFormats) =>
        (scan.valid <=>
            /\ Len(scan.window) >= scan.format.TotalBytes
            /\ \A i \in 1..Len(scan.format.Fields) :
                  FieldRule(scan.window, OffsetOf(scan.format, i), scan.format.Fields[i],
                            scan.format.Endianness, scan.maxBlockSize, scan.now))

C22_Witness ==
    /\ scan.pc = "validated" /\ scan.valid
    /\ Len(scan.format.Fields) = 3 /\ scan.format.Endianness = BigEndian
    /\ scan.maxBlockSize = ScanMaxBlockSize
    /\ SubSeq(scan.window, 1, 3) = <<170, 1, 44>>

\* the offsets of the window at which validateBlockHeader succeeds
ValidOffsets ==
    { o \in 0..(Len(scan.window) - scan.format.TotalBytes) :
        validateBlockHeader(SliceFrom(scan.window, o), scan.format, scan.maxBlockSize,
                            scan.now) }

\* C23: findBlockHeader returns the smallest offset from 0 to len - TotalBytes at
\* which validateBlockHeader succeeds on the rest of the window, and the length
\* of the window exactly when there is none (a window shorter than TotalBytes
\* included).
C23_SmallestValidOffset ==
    scan.pc = "found" =>
        /\ ValidOffsets = {} <=> scan.offset = Len(scan.window)
        /\ ValidOffsets # {} =>
              /\ scan.offset \in ValidOffsets
              /\ \A o \in ValidOffsets : scan.offset <= o

C23_Witness ==
    /\ scan.pc = "found" /\ scan.offset > 0 /\ scan.offset < Len(scan.window)
    /\ \E o \in ValidOffsets : o > scan.offset

\* what the engine holds and what it has done to the directory and the files
engineVars == <<fb, disk, files, cuts, writes, removed, removeFailures>>

\* C24: closeCurrentFile with no file open, and closeCurrentFile called a second
\* time in a row, closes nothing and changes nothing; with a file open it
\* closes the gzip writer, then the file, and leaves both fields nil.
C24_CloseIdempotent ==
    /\ [][pc' \in {"unopened", "reclosed"} => UNCHANGED engineVars]_vars
    /\ [][(pc = "drained" /\ pc' = "closed") =>
            /\ fb.currentFile # NoFile /\ fb.gzipWriter # NoFile
            /\ files[Len(files)].closes = <<>>
            /\ SubSeq(files'[Len(files)].closes, 1, 2) = <<"gzip", "file">>
            /\ fb'.currentFile = NoFile /\ fb'.gzipWriter = NoFile]_vars
    /\ [][\A i \in 1..Len(files') :
              files'[i].closes # <<>> =>
                  SubSeq(files'[i].closes, 1, 2) = <<"gzip", "file">>]_vars

C24_Witness ==
    /\ pc = "reclosed" /\ Len(files) >= 2
    /\ fb.currentFile = NoFile /\ fb.gzipWriter = NoFile
    /\ \A i \in 1..Len(files) : Len(files[i].closes) >= 2

\* C25: with headerBytes > 0 the first write sets headerCaptured and keeps as
\* header the first min(headerBytes, length of the first chunk) bytes of the
\* stream; no later step changes the flag or the header.
C25_HeaderCapturedOnce ==
    /\ [][fb.headerCaptured =>
            fb'.headerCaptured /\ fb'.header = fb.header]_vars
    /\ [][(writes = <<>> /\ writes' # <<>> /\ cfg.headerBytes > 0) =>
            /\ ~fb.headerCaptured /\ fb'.headerCaptured
            /\ fb'.header = SliceTo(stream', Min(cfg.headerBytes, writes'[1]))]_vars
    /\ [](fb.headerCaptured <=> (cfg.headerBytes > 0 /\ writes # <<>>))

C25_Witness ==
    /\ fb.headerCaptured /\ cfg.headerBytes = 1 /\ fb.header = SliceTo(stream, 1)
    /\ Len(writes) >= 3 /\ Len(files) >= 2 /\ files[2].hdr = 1

\* the files whose Close has not been called
OpenFiles == { i \in 1..Len(files) : files[i].closes = <<>> }

\* C26: between the operations of the engine currentFile and gzipWriter are set
\* together or nil together, and the only file not yet closed is the one they
\* stand for; openNewFile is called with every earlier file closed, and write is
\* called with a file open.
C26_OpenPair ==
    /\ [](fb.currentFile = NoFile <=> fb.gzipWriter = NoFile)
    /\ [](IF fb.currentFile = NoFile THEN OpenFiles = {}
          ELSE /\ OpenFiles = {Len(files)}
               /\ files[Len(files)].name = fb.currentFile
               /\ fb.gzipWriter = fb.currentFile)
    /\ [][Len(files') > Len(files) =>
            \A i \in 1..Len(files) : files'[i].closes # <<>>]_vars
    /\ [][writes' # writes => fb.currentFile # NoFile /\ exitCode' # PanicExit]_vars

C26_Witness ==
    /\ pc = "running" /\ Len(files) >= 2 /\ Len(writes) >= 2
    /\ fb.currentFile = files[Len(files)].name /\ OpenFiles = {Len(files)}
    /\ dataChannel.buf # <<>>

\* the number of places at which a sequence occurs in another
Occurrences(part, whole) ==
    Cardinality({ i \in 0..(Len(whole) - Len(part)) :
                    SubSeq(whole, i + 1, i + Len(part)) = part })

\* C27: the first file a run opens gets no replayed header, whatever the counter
\* resume starts from: what it holds is the start of the stream, in which the
\* header (bytes that differ from one another, without a block format) is found
\* once.
C27_FirstFileNoReplay ==
    Len(files) >= 1 =>
        /\ files[1].hdr = 0
        /\ files[1].data = SliceTo(stream, Len(files[1].data))
        /\ (fb.headerCaptured /\ ~HasFormat /\ Len(files[1].data) > 0) =>
              Occurrences(fb.header, files[1].data) = 1

C27_Witness ==
    /\ cfg.resumeExisting /\ files # <<>> /\ files[1].name.counter >= 2
    /\ cfg.headerBytes > 0 /\ fb.headerCaptured
    /\ Len(files) >= 2 /\ files[2].hdr > 0 /\ Len(files[1].data) > 0

\* the chunk a step hands to write
ChunkWritten == SubSeq(stream', Len(stream) + 1, Len(stream'))

\* C28: without a block format every write looks at the size of the current
\* file before it writes: at maxFileSize or more the file is closed as it is, a
\* new file is opened and the whole chunk goes to the new file (after the
\* replayed header); below maxFileSize the whole chunk goes to the current file
\* and no file is opened.
C28_RotationWithoutFormat ==
    [][(~HasFormat /\ Len(writes') = Len(writes) + 1) =>
          LET last == Len(files)
          IN  /\ writes'[Len(writes')] = Len(ChunkWritten)
              /\ IF files[last].size >= cfg.maxFileSize
                 THEN /\ Len(files') = last + 1
                      /\ files'[last].data = files[last].data
                      /\ files'[last].closes # <<>>
                      /\ files'[last + 1].hdr =
                             (IF cfg.headerBytes > 0 THEN Len(fb'.header) ELSE 0)
                      /\ files'[last + 1].data =
                             SliceTo(fb'.header, files'[last + 1].hdr) \o ChunkWritten
                 ELSE /\ Len(files') = last
                      /\ files'[last].data = files[last].data \o ChunkWritten
                      /\ files'[last].closes = <<>>]_vars

C28_Witness ==
    /\ ~HasFormat /\ cfg.headerBytes = 0 /\ Len(files) >= 2 /\ Len(writes) >= 3
    /\ Len(files[1].data) = 2 * cfg.readBufferSize
    /\ Len(files[2].data) = writes[3] /\ files[1].closes # <<>>

\* C29: every write the processor makes carries readBufferSize bytes, but for
\* one last write of what is left, from 1 byte to readBufferSize - 1, made when
\* the channel is closed and empty; no write carries nothing.
C29_ProcessorChunking ==
    /\ [](\A i \in 1..Len(writes) :
            /\ writes[i] >= 1 /\ writes[i] <= cfg.readBufferSize
            /\ writes[i] < cfg.readBufferSize =>
                  i = Len(writes) /\ processor.pc = "done")
    /\ [][(writes' # writes /\ writes'[Len(writes')] < cfg.readBufferSize) =>
            /\ dataChannel.closed /\ dataChannel.buf = <<>>
            /\ Len(writes') = Len(writes) + 1
            /\ processor.pc = "range" /\ processor'.pc = "done"]_vars

C29_Witness ==
    /\ processor.pc = "done" /\ Len(writes) >= 3
    /\ writes[1] = cfg.readBufferSize /\ writes[Len(writes)] = 1
    /\ stdin.pos = Len(stream)

\* the chunks of a channel buffer, one after the other
RECURSIVE Flatten(_)
Flatten(chunks) == IF chunks = <<>> THEN <<>> ELSE Head(chunks) \o Flatten(Tail(chunks))

\* C30: at every point of every interleaving the bytes the Reads have returned
\* are, in order, the chunks written, then the processor's buffer, then the
\* chunks in the channel, then the chunk the reader is about to send; the
\* channel is closed only when the reader has nothing left to send, bytes that
\* came with an error included; and a processor that has ended has written
\* every byte read.
C30_ContentPreserved ==
    /\ [](exitCode # PanicExit =>
            stream \o processor.processingBuffer \o Flatten(dataChannel.buf)
                   \o reader.dataToSend = PlainChunk(0, stdin.pos))
    /\ [](dataChannel.closed => reader.pc = "done" /\ reader.dataToSend = <<>>)
    /\ []((processor.pc = "done" /\ exitCode # PanicExit) =>
            /\ stream = PlainChunk(0, stdin.pos)
            /\ ConcatPayload(Len(files)) = stream)

C30_Witness ==
    /\ processor.pc = "done" /\ reader.err /\ signals = 0
    /\ Len(writes) >= 3 /\ stdin.pos = MaxInput /\ stream = PlainChunk(0, MaxInput)

\* the positions, from 0, of the tokens typed length
LengthTokens(format) ==
    { i \in 0..(Len(TokensOf(format)) - 1) :
         TokensOf(format)[i + 1].typeStr = <<"l", "e", "n", "g", "t", "h">> }

\* C31 (as claimed): of several fields typed length the first one is the
\* designated Length field: LengthIndex is the index of the first.
C31_FirstLengthHonored ==
    (pc # "args" /\ ~ConfigError(blockHeader) /\ LengthTokens(blockHeader) # {}) =>
        /\ cfg.blockFormat.HasLength
        /\ \A i \in LengthTokens(blockHeader) : cfg.blockFormat.LengthIndex <= i

\* C31 (amended): of several fields typed length the last one is the designated
\* Length field: HasLength is set exactly when a field is typed length, and
\* LengthIndex is the index of the last such field.
C31_LastLengthRecorded ==
    (pc # "args" /\ ~ConfigError(blockHeader)) =>
        /\ cfg.blockFormat.HasLength <=> LengthTokens(blockHeader) # {}
        /\ cfg.blockFormat.HasLength =>
              /\ cfg.blockFormat.LengthIndex \in LengthTokens(blockHeader)
              /\ \A i \in LengthTokens(blockHeader) : i <= cfg.blockFormat.LengthIndex

C31_Witness ==
    /\ pc = "closed" /\ Cardinality(LengthTokens(blockHeader)) = 2
    /\ cfg.blockFormat.HasLength /\ cfg.blockFormat.LengthIndex = 1
    /\ Len(cfg.blockFormat.Fields) = 2

\* the header the scan of this cut validated
HeaderAtCut(cut) == SliceFrom(cut.window, cut.offset)

MaxScanSize == cfg.maxBlockSize + cfg.blockFormat.TotalBytes

\* a search for a block boundary is under way: a format is configured and the
\* current file has reached the size threshold
BoundarySearch ==
    /\ HasFormat /\ fb.gzipWriter # NoFile
    /\ files[Len(files)].size >= cfg.maxFileSize

\* C34: between two calls of write, pendingData holds at most maxBlockSize +
\* TotalBytes bytes, and it is empty when no format is configured or the current
\* file is below the size threshold.
C34_PendingBound ==
    pc = "run" =>
        /\ HasFormat => Len(fb.pendingData) <= MaxScanSize
        /\ ~BoundarySearch => fb.pendingData = <<>>

C34_Witness ==
    /\ pc = "run" /\ HasFormat /\ Len(fb.pendingData) = MaxScanSize
    /\ BoundarySearch /\ Len(stream) = MaxInput

\* C36: when the input ends while bytes are held in pendingData, they are
\* written to an output file before the last closeCurrentFile: at the end
\* pendingData is empty and the files hold the whole input.
C36_PendingWrittenAtEnd ==
    (pc = "closed" /\ HasFormat) =>
        /\ fb.pendingData = <<>>
        /\ StreamBytesUpTo(Len(files)) = Len(stream)

\* the formats that differ from this one in nothing but the signed flags
SignVariants(format) ==
    { [format EXCEPT !.Fields = [i \in 1..Len(format.Fields) |->
                                    [format.Fields[i] EXCEPT !.Signed = signs[i]]]] :
        signs \in [1..Len(format.Fields) -> BOOLEAN] }

PopsOldest ==
    \A f \in { fb.activeFiles[i] : i \in 1..Len(fb.activeFiles) } :
        Head(fb.activeFiles).counter <= f.counter

\* C35 (as claimed): activeFiles holds distinct names in strictly ascending
\* counter order.
C35_StrictlyAscending ==
    \A i \in 1..Len(fb.activeFiles) : \A j \in 1..Len(fb.activeFiles) :
        i < j => fb.activeFiles[i].counter < fb.activeFiles[j].counter

\* C35 (amended): activeFiles holds distinct names in ascending counter order,
\* strictly ascending from the first file this run created on and whenever the
\* counters found at startup are distinct; after resume has loaded it, a step
\* changes it only by appending the name of the file created, after dropping
\* the head when the list is full, and the head dropped has the smallest
\* counter of the list.
C35_ActiveFilesOrdered ==
    /\ [](\A i \in 1..Len(fb.activeFiles) : \A j \in 1..Len(fb.activeFiles) :
            i < j => /\ fb.activeFiles[i] # fb.activeFiles[j]
                     /\ fb.activeFiles[i].counter <= fb.activeFiles[j].counter
                     /\ fb.activeFiles[j].ts = RunStamp =>
                           fb.activeFiles[i].counter < fb.activeFiles[j].counter)
    /\ []((\A f \in FoundAtStartup : \A g \in FoundAtStartup :
              f.counter = g.counter => f = g) => C35_StrictlyAscending)
    /\ [][(pc # "start" /\ fb.activeFiles' # fb.activeFiles) =>
             /\ Len(files') = Len(files) + 1
             /\ \/ fb.activeFiles' = Append(fb.activeFiles, files'[Len(files')].name)
                \/ /\ Len(fb.activeFiles) >= cfg.maxNumFiles
                   /\ PopsOldest
                   /\ fb.activeFiles' =
                         Append(Tail(fb.activeFiles), files'[Len(files')].name)
                   /\ disk \ disk' \subseteq {Head(fb.activeFiles)}]_vars

C35_Witness ==
    /\ pc = "running" /\ cfg.resumeExisting /\ Len(files) = 1
    /\ Len(fb.activeFiles) = 2 /\ fb.activeFiles[1].ts # RunStamp
    /\ fb.activeFiles[2] = files[1].name
    /\ \E f \in removed : f.counter = fb.activeFiles[1].counter

\* C37: the name openNewFile gives a file is matched by the pattern a later run
\* builds from the same prefix, and the counter parsed from it is the counter
\* the file was created with: for every prefix, with or without an extension
\* and a directory, every counter and every timestamp.
C37_FilenameRoundTrip ==
    scan.pc = "loaded" => (scan.matched /\ scan.parsed = scan.counter)

\* the file was created by this run and has been closed
ClosedFile(f, created) ==
    \E i \in 1..Len(created) : created[i].name = f /\ created[i].closes # <<>>

\* C38: a file removed by an eviction is never the open output file: when the
\* handler that removed it returns, the file is one that was on disk at startup
\* or one this run created and has closed, the open file is another one, and
\* the open file is on disk at all times.
C38_EvictedNotOpen ==
    /\ [](fb.currentFile # NoFile => fb.currentFile \in disk)
    /\ [][\A f \in removed' \ removed :
             /\ f # fb'.currentFile
             /\ f.ts # RunStamp \/ ClosedFile(f, files')]_vars

C38_Witness ==
    /\ cfg.maxNumFiles = 1 /\ cfg.resumeExisting /\ pc = "running"
    /\ Len(files) = 2 /\ files[1].name \in removed /\ files[1].closes # <<>>
    /\ fb.currentFile = files[2].name /\ disk = {fb.currentFile}
    /\ \E f \in removed : f.ts # RunStamp

\* the bytes in the chunks of dataChannel
RECURSIVE QueuedBytes(_)
QueuedBytes(buf) == IF buf = <<>> THEN 0 ELSE Len(Head(buf)) + QueuedBytes(Tail(buf))

CreateFailed == exitCode = 1 /\ handler # "exited"

\* the stream bytes the files hold, replayed headers left out
RECURSIVE WrittenOf(_)
WrittenOf(fs) ==
    IF fs = <<>> THEN <<>>
    ELSE WrittenOf(SliceTo(fs, Len(fs) - 1)) \o SliceFrom(fs[Len(fs)].data, fs[Len(fs)].hdr)

HasOpenFile == fb.gzipWriter # NoFile /\ fb.currentFile # NoFile

\* C40 as stated: a failure to create the new file or to write its replayed
\* header ends the process with code 1 in the same step, with no byte of the
\* current chunk written and the queued chunks left where they are, and the
\* program never runs on without an open file.
C40_ChunkNotWritten ==
    /\ []((Running /\ pc \in {"running", "drained"}) => HasOpenFile)
    /\ [][~Running => UNCHANGED <<fb, disk, files, dataChannel, processor>>]_vars
    /\ [][(Running /\ CreateFailed') =>
             /\ WrittenOf(files') = WrittenOf(files)
             /\ Len(dataChannel'.buf) >= Len(dataChannel.buf) - 1]_vars

\* C40 amended: a failure to create the new file or to write its replayed header
\* ends the process with code 1 in the same step; of the current chunk the bytes
\* before the cut have been written, to the file the rotation closed, and the
\* bytes after it are not written; the queued chunks are left where they are,
\* and the program never runs on without an open file.
C40_RestNotWritten ==
    /\ []((Running /\ pc \in {"running", "drained"}) => HasOpenFile)
    /\ [][~Running => UNCHANGED <<fb, disk, files, dataChannel, processor>>]_vars
    /\ [][(Running /\ CreateFailed') =>
             LET data == SliceFrom(stream', Len(stream))
             IN  /\ WrittenOf(files') = WrittenOf(files) \o SliceTo(data, NextBlockOffset(data))
                 /\ Len(dataChannel'.buf) >= Len(dataChannel.buf) - 1]_vars

C40_Witness ==
    /\ CreateFailed /\ pc = "running" /\ processor.pc = "range"
    /\ cfg.blockFormat # NilFormat /\ Len(writes) >= 2
    /\ fb.gzipWriter = NoFile /\ files[Len(files)].closes # <<>>
    /\ dataChannel.buf # <<>>

====
